---- MODULE Spec2Model ----
(***************************************************************************)
(* RaspadinhaKanpary: the scratch-card round (gameEngine.js), the ledger   *)
(* operations of auth.js (updateUserBalance, applyFirstDepositRollover),   *)
(* the route POST /api/game/scratch and the error handler of               *)
(* middleware.js, over a PostgreSQL users row with row-level locking.      *)
(*                                                                         *)
(* Units.  Money is an integer number of thousandths of a real (R$ 0,50 is *)
(* 500), so that an amount with more than two decimals can be told from    *)
(* its two-decimal rounding; DECIMAL(12,2) columns hold multiples of 10.   *)
(* The RTP is in hundredths of a percent (95.0 is 9500).  The uniform draw *)
(* of Math.random() is an integer r in 0..9999 standing for r/10000.       *)
(* NaN, the one value of a JavaScript number that is not a number, is      *)
(* kept apart from every amount the model uses.                           *)
(***************************************************************************)
EXTENDS Integers, Sequences, FiniteSets, TLC

(***************************************************************************)
(* Bounds of the model.                                                    *)
(***************************************************************************)
NumProcs == 2   \* concurrent requests of the general specification
MaxOps == 3     \* requests started in one behaviour of the general specification
RaceProcs == 3  \* concurrent calls of the race specifications

Procs == 1..NumProcs
Racers == 1..RaceProcs

(***************************************************************************)
(* Money and the fixed tables of gameEngine.js.                            *)
(***************************************************************************)
BRL(reais, centavos) == (reais * 100 + centavos) * 10

ALLOWED_BETS ==
  { BRL(0, 50), BRL(1, 0), BRL(1, 50), BRL(2, 0), BRL(3, 0), BRL(5, 0),
    BRL(10, 0), BRL(15, 0), BRL(20, 0), BRL(25, 0), BRL(30, 0), BRL(35, 0),
    BRL(40, 0), BRL(45, 0), BRL(50, 0) }

\* x.toFixed(2) read back by parseFloat: x rounded to the nearest centavo.
ToFixed2(x) == ((x + 5) \div 10) * 10

\* parseFloat of a text that is no numeral, and whatever is computed from it.
NaN == -1

\* What a DECIMAL(12,2) column keeps of a non-negative value written to it;
\* a numeric column stores NaN as it is.
Decimal2(x) == IF x = NaN THEN NaN ELSE ((x + 5) \div 10) * 10

\* num / den thousandths (num, den > 0) rounded to the nearest centavo, halves
\* up, in exact arithmetic.
RoundCentavos(num, den) == ((2 * num + 10 * den) \div (20 * den)) * 10

Max(a, b) == IF a >= b THEN a ELSE b

DefaultRtp == 9500   \* the literal 95.0 a missing setting is read as
BaseRtp == 95        \* the literal 95.0 the RTP is divided by, in percent

\* Mutant: the bonus of the highest stakes is missing.
BonusChanceCapped(betAmount) ==
  IF betAmount >= BRL(50, 0) THEN 0
  ELSE IF betAmount >= BRL(30, 0) THEN 12
  ELSE IF betAmount >= BRL(20, 0) THEN 9
  ELSE IF betAmount >= BRL(10, 0) THEN 6
  ELSE IF betAmount >= BRL(5, 0) THEN 3
  ELSE 0

\* bonusChance in hundredths (0.03 is 3).
BonusChance(betAmount) ==
  IF betAmount >= BRL(50, 0) THEN 15
  ELSE IF betAmount >= BRL(30, 0) THEN 12
  ELSE IF betAmount >= BRL(20, 0) THEN 9
  ELSE IF betAmount >= BRL(10, 0) THEN 6
  ELSE IF betAmount >= BRL(5, 0) THEN 3
  ELSE 0

\* Mutant: the bonus weighs ten times as much on the third cut point.
Threshold3Steep(betAmount) == 2200 + BonusChance(betAmount) * 400

\* The four cumulative cut points, in ten-thousandths.
Threshold1(betAmount) == 200 + BonusChance(betAmount) * 15
Threshold2(betAmount) == 700 + BonusChance(betAmount) * 30
Threshold3(betAmount) == 2200 + BonusChance(betAmount) * 40
Threshold4(betAmount) == 5000 + BonusChance(betAmount) * 15

\* Mutant: the bands are closed on the right.
BaseMultiplierClosedBands(betAmount, random) ==
  IF random <= Threshold1(betAmount) THEN 10
  ELSE IF random <= Threshold2(betAmount) THEN 5
  ELSE IF random <= Threshold3(betAmount) THEN 2
  ELSE IF random <= Threshold4(betAmount) THEN 1
  ELSE 0

\* The multiplier of the band the draw falls in.
BaseMultiplier(betAmount, random) ==
  IF random < Threshold1(betAmount) THEN 10
  ELSE IF random < Threshold2(betAmount) THEN 5
  ELSE IF random < Threshold3(betAmount) THEN 2
  ELSE IF random < Threshold4(betAmount) THEN 1
  ELSE 0

(***************************************************************************)
(* IEEE-754 double arithmetic, as far as calculateScratchPrize uses it.    *)
(* A natural number is a sequence of limbs in base 2^13, least significant *)
(* first, without leading zero limbs; a positive double is m * 2^e with m  *)
(* a natural of exactly 53 bits, and zero is the empty mantissa.           *)
(***************************************************************************)
Limb == 8192
LimbBits == 13
MantissaBits == 53

\* An intermediate result is bound as CHOOSE v \in { f(x) : x \in { e } } : TRUE,
\* which is f(e) with e computed once, as a `const` of the source is.

RECURSIVE NatTrim(_)
NatTrim(a) ==
  IF a = << >> THEN << >>
  ELSE IF a[Len(a)] = 0 THEN NatTrim(SubSeq(a, 1, Len(a) - 1))
  ELSE a

RECURSIVE NatOfInt(_)
NatOfInt(n) == IF n = 0 THEN << >> ELSE << n % Limb >> \o NatOfInt(n \div Limb)

RECURSIVE IntOfNat(_)
IntOfNat(a) == IF a = << >> THEN 0 ELSE a[1] + Limb * IntOfNat(Tail(a))

\* a * c + carry, for a small c.
RECURSIVE NatMulSmall(_, _, _)
NatMulSmall(a, c, carry) ==
  IF a = << >> THEN NatOfInt(carry)
  ELSE CHOOSE v \in { << t % Limb >> \o NatMulSmall(Tail(a), c, t \div Limb) :
                      t \in { a[1] * c + carry } } : TRUE

\* Quotient and remainder of a by a small d.
RECURSIVE NatDivRec(_, _)
NatDivRec(a, d) ==
  IF a = << >> THEN [ q |-> << >>, r |-> 0 ]
  ELSE CHOOSE v \in { LET t == hi.r * Limb + a[1]
                      IN  [ q |-> << t \div d >> \o hi.q, r |-> t % d ] :
                      hi \in { NatDivRec(Tail(a), d) } } : TRUE

NatDivSmall(a, d) ==
  CHOOSE v \in { [ q |-> NatTrim(x.q), r |-> x.r ] : x \in { NatDivRec(a, d) } } : TRUE

RECURSIVE NatAdd(_, _, _)
NatAdd(a, b, carry) ==
  IF a = << >> /\ b = << >> THEN NatOfInt(carry)
  ELSE CHOOSE v \in { << t % Limb >> \o NatAdd(IF a = << >> THEN << >> ELSE Tail(a),
                                               IF b = << >> THEN << >> ELSE Tail(b),
                                               t \div Limb) :
                      t \in { (IF a = << >> THEN 0 ELSE a[1])
                              + (IF b = << >> THEN 0 ELSE b[1]) + carry } } : TRUE

RECURSIVE NatMul(_, _)
NatMul(a, b) ==
  IF a = << >> \/ b = << >> THEN << >>
  ELSE CHOOSE v \in { NatAdd(NatMulSmall(a, b[1], 0),
                             IF rest = << >> THEN << >> ELSE << 0 >> \o rest, 0) :
                      rest \in { NatMul(a, Tail(b)) } } : TRUE

RECURSIVE IntBitLen(_)
IntBitLen(n) == IF n = 0 THEN 0 ELSE 1 + IntBitLen(n \div 2)

BitLen(a) == IF a = << >> THEN 0 ELSE LimbBits * (Len(a) - 1) + IntBitLen(a[Len(a)])

ShiftLeft(a, s) ==
  IF a = << >> THEN << >>
  ELSE [ i \in 1..(s \div LimbBits) |-> 0 ] \o NatMulSmall(a, 2 ^ (s % LimbBits), 0)

\* floor(a / 2^s), and whether anything non-zero was shifted out.
ShiftRight(a, s) ==
  LET k == s \div LimbBits
      low == SubSeq(a, 1, IF k <= Len(a) THEN k ELSE Len(a))
  IN  CHOOSE v \in { [ q |-> d.q, sticky |-> d.r # 0 \/ \E i \in 1..Len(low) : low[i] # 0 ] :
                     d \in { NatDivSmall(SubSeq(a, k + 1, Len(a)), 2 ^ (s % LimbBits)) } } : TRUE

Zero == [ m |-> << >>, e |-> 0 ]

\* m * 2^e for a natural m of at most 54 bits, as a mantissa of 53 bits.
Normalize(m, e) ==
  IF BitLen(m) > MantissaBits THEN [ m |-> NatDivSmall(m, 2).q, e |-> e + 1 ]
  ELSE [ m |-> m, e |-> e ]

\* x.q * 2^(e - 1) (x.q of 54 bits; x.sticky, sticky: the exact value is
\* above it) rounded to 53 bits: to nearest, ties to even.
RoundHalf(x, e, sticky) ==
  CHOOSE v \in { LET half == x.q[1] % 2 = 1
                     up == half /\ (x.sticky \/ sticky \/ q[1] % 2 = 1)
                 IN  CHOOSE w \in { Normalize(m, e) :
                                    m \in { IF up THEN NatAdd(q, << 1 >>, 0) ELSE q } } : TRUE :
                 q \in { NatDivSmall(x.q, 2).q } } : TRUE

\* The double nearest to n * 2^e (n a natural; `sticky`: the exact value lies
\* strictly between n * 2^e and (n + 1) * 2^e), ties to even.
RoundToDouble(n, e, sticky) ==
  LET len == BitLen(n)
      s == len - MantissaBits
  IN  IF n = << >> THEN Zero
      ELSE IF len <= MantissaBits
      THEN [ m |-> ShiftLeft(n, MantissaBits - len), e |-> e - (MantissaBits - len) ]
      ELSE CHOOSE v \in { RoundHalf(x, e + s, sticky) : x \in { ShiftRight(n, s - 1) } } : TRUE

\* The double a decimal literal n / d denotes (n, d small integers).
DoubleOf(n, d) ==
  CHOOSE v \in { RoundToDouble(x.q, 0 - 6 * LimbBits, x.r # 0) :
                 x \in { NatDivSmall(ShiftLeft(NatOfInt(n), 6 * LimbBits), d) } } : TRUE

\* x / d for a double x and a small integer d.
FDiv(x, d) ==
  CHOOSE v \in { RoundToDouble(y.q, x.e - 2 * LimbBits, y.r # 0) :
                 y \in { NatDivSmall(ShiftLeft(x.m, 2 * LimbBits), d) } } : TRUE

\* x * y for doubles x and y.
FMul(x, y) ==
  CHOOSE v \in { RoundToDouble(n, x.e + y.e, FALSE) : n \in { NatMul(x.m, y.m) } } : TRUE

\* Math.round(x) for a double x >= 0 below 2^31: floor(x + 1/2).
MathRound(x) ==
  IF x.m = << >> THEN 0
  ELSE IF x.e >= 0 THEN IntOfNat(ShiftLeft(x.m, x.e))
  ELSE (IntOfNat(ShiftRight(x.m, (0 - x.e) - 1).q) + 1) \div 2

Multipliers == { 0, 1, 2, 5, 10 }

\* The amounts and the RTP values that reach calculateScratchPrize in the
\* specifications below.
PrizeBets == ALLOWED_BETS \cup { BRL(10, 0) + 4, BRL(3, 0) - 5 }
PrizeRtps == { 5000, 5415, 7500, 9500, 9900 }

\* Mutant: the multiplier is not scaled by the RTP.
ScalePrizeUnscaled(betAmount, rtpPercentage, multiplier) ==
  CHOOSE v \in { [ multiplier |-> adjustedMultiplier,
                   centavos |-> CHOOSE c \in { MathRound(cents) :
                                  cents \in { FMul(FMul(bet, adjustedMultiplier), hundred) } } : TRUE ] :
                 adjustedMultiplier \in { DoubleOf(multiplier, 1) },
                 bet \in { DoubleOf(betAmount, 1000) },
                 hundred \in { DoubleOf(100, 1) } } : TRUE

\* Lines 51-58 of calculateScratchPrize, in doubles: the adjusted multiplier
\* and Math.round(prizeAmount * 100), in centavos.
ScalePrize(betAmount, rtpPercentage, multiplier) ==
  CHOOSE v \in { LET prizeAmount == FMul(bet, adjustedMultiplier)
                 IN  [ multiplier |-> adjustedMultiplier,
                       centavos |-> CHOOSE c \in { MathRound(cents) :
                                      cents \in { FMul(prizeAmount, hundred) } } : TRUE ] :
                 adjustedMultiplier \in
                   { CHOOSE a \in { FMul(base, rtpFactor) :
                                    rtpFactor \in { FDiv(DoubleOf(rtpPercentage, 100), BaseRtp) },
                                    base \in { DoubleOf(multiplier, 1) } } : TRUE },
                 bet \in { DoubleOf(betAmount, 1000) },
                 hundred \in { DoubleOf(100, 1) } } : TRUE

\* ScalePrize, computed once for each argument.
ScaledPrizes ==
  [ betAmount \in PrizeBets, rtpPercentage \in PrizeRtps, multiplier \in Multipliers |->
      ScalePrize(betAmount, rtpPercentage, multiplier) ]

\* calculateScratchPrize for the draw `random`.  With rtpPercentage NaN the
\* adjusted multiplier and the prize are NaN.
calculateScratchPrize(betAmount, rtpPercentage, random) ==
  LET multiplier == BaseMultiplier(betAmount, random)
  IN  IF rtpPercentage = NaN
      THEN [ multiplier |-> NaN, base |-> multiplier, prizeAmount |-> NaN ]
      ELSE [ multiplier |-> ScaledPrizes[betAmount, rtpPercentage, multiplier].multiplier,
             base |-> multiplier,
             prizeAmount |-> ScaledPrizes[betAmount, rtpPercentage, multiplier].centavos * 10 ]

(***************************************************************************)
(* Error messages, as the words err.message.includes() looks for.  The     *)
(* accents of the source are dropped: "nao", "invalido", "Usuario".        *)
(***************************************************************************)
MsgInvalidBet ==
  << "Valor", "de", "aposta", "invalido", ".", "Escolha", "um", "dos", "valores", "permitidos", "." >>
MsgNotFound == << "Usuario", "nao", "encontrado" >>
MsgInsufficient == << "Saldo", "insuficiente" >>
MsgInvalidOperation == << "Operacao", "invalida" >>
MsgStorage == << "storage", "error" >>
MsgGateway == << "BullsPay", "error" >>
MsgType == << "user.rollover_required.toFixed", "is", "not", "a", "function" >>
MsgReference == << "amount", "is", "not", "defined" >>

\* String.prototype.includes, on words: `needle` occurs in `message` as a run
\* of consecutive words (case-sensitive, as in the source).
Includes(message, needle) ==
  \E i \in 1..(Len(message) - Len(needle) + 1) :
    \A j \in 1..Len(needle) : message[i + j - 1] = needle[j]

\* Mutant: the error handler has no branch for 'nao encontrado'.
errorHandlerWithoutNotFound(message) ==
  IF Includes(message, << "Token" >>) THEN 401
  ELSE IF Includes(message, << "ja", "existe" >>) \/ Includes(message, << "invalido" >>) THEN 400
  ELSE 500

\* errorHandler of middleware.js: the HTTP status of a thrown error.
errorHandler(message) ==
  IF Includes(message, << "Token" >>) THEN 401
  ELSE IF Includes(message, << "nao", "encontrado" >>) THEN 404
  ELSE IF Includes(message, << "ja", "existe" >>) \/ Includes(message, << "invalido" >>) THEN 400
  ELSE 500

(***************************************************************************)
(* State.                                                                  *)
(*   users        the committed users rows (balance, rollover_required,    *)
(*                first_deposit_made), by id                               *)
(*   game_rounds  the committed game_rounds rows, in insertion order       *)
(*   settings     the committed settings rows, by key                      *)
(*   rowLock      the transactions holding each users row's lock           *)
(*   pc, req      each request's position and arguments                    *)
(*   loc          the locals of the function a request is running          *)
(*   tx           the uncommitted writes of a request's transaction        *)
(*   ret, resp    what the function returned or threw, and the HTTP status *)
(*   hist         what the current request has done to storage so far      *)
(*   ops          requests started                                         *)
(*   lin          the ledger row obtained by applying the committed        *)
(*                operations one at a time, in commit order                *)
(*   pool         the connection pool: its size and the requests holding   *)
(*                one of its clients                                       *)
(*   transactions the committed transactions rows (deposits and            *)
(*                withdrawals), in insertion order                         *)
(*   gateway      the payment gateway: the status of the deposit's charge, *)
(*                the available balance in centavos, the payouts requested *)
(*   route        the route handler a request slot is running, its         *)
(*                position and its locals                                  *)
(***************************************************************************)
VARIABLES users, game_rounds, settings, rowLock, pc, req, loc, tx, ret, resp, hist, ops, lin,
          pool, transactions, gateway, route

vars ==
  << users, game_rounds, settings, rowLock, pc, req, loc, tx, ret, resp, hist, ops, lin,
     pool, transactions, gateway, route >>

Users == { "u1" }            \* ids with a users row
UserIds == { "u1", "u0" }    \* ids a request may carry; "u0" has no row

NewUserRow == [ balance |-> 0, rollover_required |-> 0, first_deposit_made |-> FALSE ]

\* A text: `numeral` tells whether the whole text is a decimal numeral, and
\* `value` is the number its longest numeral prefix denotes, in hundredths (NaN
\* if it has none): "75" is NumberText(7500), "abc" is OtherText(NaN).
NumberText(n) == [ numeral |-> TRUE, value |-> n ]
OtherText(prefix) == [ numeral |-> FALSE, value |-> prefix ]

\* parseFloat(text): the number of the longest numeral prefix.
parseFloat(text) == text.value

\* Number(text), the conversion a comparison applies to a string.
ToNumber(text) == IF text.numeral THEN text.value ELSE NaN

\* A JSON value of a request body: absent, a number or a string (for a number,
\* `text` is its toString()).
NoBody == [ type |-> "undefined", text |-> OtherText(NaN) ]
NumberBody(n) == [ type |-> "number", text |-> NumberText(n) ]
StringBody(text) == [ type |-> "string", text |-> text ]

NoReq ==
  [ kind |-> "none", via |-> "call", userId |-> "u1", amount |-> 0, operation |-> "none",
    body |-> NoBody ]
NoLoc ==
  [ currentBalance |-> 0, currentRollover |-> 0, rtpPercentage |-> 0, random |-> 0, base |-> 0,
    multiplier |-> Zero,
    prizeAmount |-> 0, newBalance |-> 0, newRollover |-> 0, rows |-> 0, error |-> << >> ]
NoTx == [ row |-> << >>, rounds |-> << >> ]
NoRet ==
  [ status |-> "none", message |-> << >>, prize |-> 0, finalBalance |-> 0, applied |-> FALSE ]
NoResp == [ status |-> 0, allowed_bets |-> FALSE ]
NoHist ==
  [ began |-> FALSE, locked |-> FALSE, firstDepositMadeAtCall |-> FALSE, settingNull |-> FALSE ]

\* A transactions row as a handler read it.
NoRow ==
  [ type |-> "none", user_id |-> "u1", amount |-> 0, status |-> "none", gateway_id |-> "none",
    expires_at |-> "null" ]

\* A header or an environment variable that is not set, the key of
\* process.env.BULLSPAY_API_KEY as the words of its text, and the template
\* `Bearer ${expectedKey}`, which writes an unset key as "undefined".
Undefined == << >>
ApiKey == << "bp_secret" >>
Bearer(key) == << "Bearer" >> \o (IF key = Undefined THEN << "undefined" >> ELSE key)
NoHeaders == [ x_api_key |-> Undefined, authorization |-> Undefined ]

\* The gateway and the deployment's credential for it: the status of the
\* charge and of the payout it reports, its available balance in centavos, the
\* payouts requested from it and the refunds of charges requested from it.
NoGateway ==
  [ charge |-> "none", withdrawal |-> "none", available_balance |-> 0, payouts |-> << >>,
    refunds |-> 0, api_key |-> ApiKey ]

\* The locals of a route handler: the row it read (transaction, transactionData),
\* the status it was told (bullsPayTx.status, data.status), the amount of its
\* body, the user row it read, the available balance it was told, the error it
\* caught; `deducted`: its updateUserBalance(subtract) has committed.
NoRoute ==
  [ kind |-> "none", step |-> "idle", id |-> 0, transaction |-> NoRow, status |-> "none",
    amount |-> 0, user_id |-> "u1", user |-> NewUserRow, available_balance |-> 0,
    error |-> << >>, deducted |-> FALSE, headers |-> NoHeaders ]

\* The size of a pg Pool constructed without `max`.
DefaultPoolMax == 10

\* pool.connect() and pool.query() wait until the pool has a client to give.
PoolFree == Cardinality(pool.clients) < pool.max

\* getSetting of db.js: the stored value, or null (the empty sequence).
getSetting(key) == IF key \in DOMAIN settings THEN << settings[key] >> ELSE << >>

\* Mutant: the row is read without FOR UPDATE, so nothing waits.
LockFreeAlways(p, userId) == TRUE

\* SELECT ... FOR UPDATE and UPDATE wait while another transaction holds the
\* row's lock; a statement that matches no row waits for nothing.
LockFree(p, userId) == userId \in Users => rowLock[userId] \subseteq { p }

\* Mutant: the statement takes no row lock.
LockNone(p, userId) == rowLock

Lock(p, userId) ==
  IF userId \in Users THEN [rowLock EXCEPT ![userId] = { p }] ELSE rowLock

\* Whether transaction p holds the lock of userId's row in `locks`.
Holds(locks, p, userId) == userId \in Users /\ p \in locks[userId]

\* Mutant: the end of a transaction leaves its row locks in place.
ReleaseNothing(p) == rowLock

\* The end of a transaction releases its row locks.
Release(p) == [ u \in Users |-> rowLock[u] \ { p } ]

\* Mutant: COMMIT replaces the table by the rows of the transaction.
CommittedRoundsReplacing(p) == tx[p].rounds

\* COMMIT: the transaction's writes become the committed state.
CommittedUsers(p, userId) ==
  IF tx[p].row = << >> THEN users ELSE [users EXCEPT ![userId] = tx[p].row[1]]
CommittedRounds(p) == game_rounds \o tx[p].rounds

\* The response of a route to an error passed to next(): errorHandler's status.
Thrown(p, message) ==
  IF req[p].via = "http"
  THEN [ status |-> errorHandler(message), allowed_bets |-> FALSE ]
  ELSE NoResp

ErrorRet(message) == [ NoRet EXCEPT !.status = "error", !.message = message ]

Finish(p, r, rsp) ==
  /\ pc' = [pc EXCEPT ![p] = "idle"]
  /\ pool' = [pool EXCEPT !.clients = @ \ { p }]
  /\ ret' = [ret EXCEPT ![p] = r]
  /\ resp' = [resp EXCEPT ![p] = rsp]
  /\ loc' = [loc EXCEPT ![p] = NoLoc]
  /\ tx' = [tx EXCEPT ![p] = NoTx]

\* A new request on an idle slot.  `began`: the call got as far as
\* pool.connect() and BEGIN.
Issue(p, r, began) ==
  /\ pc[p] = "idle"
  /\ ops < MaxOps
  /\ ops' = ops + 1
  /\ began => PoolFree
  /\ pool' = IF began THEN [pool EXCEPT !.clients = @ \cup { p }] ELSE pool
  /\ req' = [req EXCEPT ![p] = r]
  /\ hist' = [hist EXCEPT ![p] =
       [ began |-> began, locked |-> FALSE,
         firstDepositMadeAtCall |->
           (r.userId \in Users /\ users[r.userId].first_deposit_made),
         settingNull |-> FALSE ]]

(***************************************************************************)
(* Inputs of the general specification.                                    *)
(***************************************************************************)
ScratchBets == { BRL(10, 0), BRL(7, 0) }       \* R$ 7,00 is not an allowed bet
Amounts == { BRL(10, 0), BRL(500, 0) }
Draws == { 100, 4000, 9000 }                   \* draws of the 10x, 1x and 0x bands
InitialRtp == { 9500 }

\* Mutant: the bet is not checked.
BetAllowedAlways(betAmount) == betAmount = betAmount

\* Mutant: the bet is checked only for amounts above the largest allowed one.
BetAllowedUpToMax(betAmount) == ToFixed2(betAmount) <= BRL(100, 0)

\* The bet check of playScratchCard and of the route: the amount rounded to
\* two decimals is one of ALLOWED_BETS.
BetAllowed(betAmount) == ToFixed2(betAmount) \in ALLOWED_BETS

(***************************************************************************)
(* POST /api/game/scratch and playScratchCard.                             *)
(***************************************************************************)
\* The route's own check answers 400 with the allowed list; otherwise
\* playScratchCard is called, which checks the bet and only then runs
\* pool.connect() and BEGIN.
ScratchRequest(p, via, userId, betAmount) ==
  /\ Issue(p, [ kind |-> "scratch", via |-> via, userId |-> userId,
                amount |-> betAmount, operation |-> "none", body |-> NoBody ],
           BetAllowed(betAmount))
  /\ IF via = "http" /\ (betAmount = 0 \/ ~BetAllowed(betAmount))
     THEN /\ pc' = pc
          /\ ret' = [ret EXCEPT ![p] = NoRet]
          /\ resp' = [resp EXCEPT ![p] = [ status |-> 400, allowed_bets |-> TRUE ]]
     ELSE IF ~BetAllowed(betAmount)
     THEN /\ pc' = pc
          /\ ret' = [ret EXCEPT ![p] = ErrorRet(MsgInvalidBet)]
          /\ resp' = [resp EXCEPT ![p] = NoResp]
     ELSE /\ pc' = [pc EXCEPT ![p] = "play_select"]
          /\ ret' = [ret EXCEPT ![p] = NoRet]
          /\ resp' = [resp EXCEPT ![p] = NoResp]
  /\ UNCHANGED << users, game_rounds, settings, rowLock, loc, tx, lin,
                  transactions, gateway, route >>

\* if (currentBalance < betAmount) throw new Error('Saldo insuficiente').
InsufficientFunds(currentBalance, betAmount) == currentBalance # NaN /\ currentBalance < betAmount

\* SELECT id, balance, rollover_required ... FOR UPDATE, and the two checks
\* that follow it.
PlaySelect(p) ==
  /\ pc[p] = "play_select"
  /\ LockFree(p, req[p].userId)
  /\ rowLock' = Lock(p, req[p].userId)
  /\ hist' = [hist EXCEPT ![p].locked = Holds(Lock(p, req[p].userId), p, req[p].userId)]
  /\ IF req[p].userId \notin Users
     THEN /\ loc' = [loc EXCEPT ![p].error = MsgNotFound]
          /\ pc' = [pc EXCEPT ![p] = "play_rollback"]
     ELSE LET user == users[req[p].userId]
          IN  IF InsufficientFunds(user.balance, req[p].amount)
              THEN /\ loc' = [loc EXCEPT ![p].currentBalance = user.balance,
                                         ![p].error = MsgInsufficient]
                   /\ pc' = [pc EXCEPT ![p] = "play_rollback"]
              ELSE /\ loc' = [loc EXCEPT ![p].currentBalance = user.balance,
                                         ![p].currentRollover = user.rollover_required]
                   /\ pc' = [pc EXCEPT ![p] = "play_setting"]
  /\ UNCHANGED << users, game_rounds, settings, req, tx, ret, resp, ops, lin,
                  pool, transactions, gateway, route >>

\* Mutant: a missing setting is parsed like a stored one.
PlayGetSettingWithoutDefault(p) ==
  /\ pc[p] = "play_setting"
  /\ PoolFree
  /\ LET rtpString == getSetting("rtp_percentage")
     IN  /\ loc' = [loc EXCEPT ![p].rtpPercentage =
                      IF rtpString # << >> THEN parseFloat(rtpString[1]) ELSE NaN]
         /\ hist' = [hist EXCEPT ![p].settingNull = (rtpString = << >>)]
  /\ pc' = [pc EXCEPT ![p] = "play_update"]
  /\ UNCHANGED << users, game_rounds, settings, rowLock, req, tx, ret, resp, ops, lin,
                  pool, transactions, gateway, route >>

\* getSetting('rtp_percentage'), a pool.query(): parseFloat of the stored text,
\* null read as 95.0.
PlayGetSetting(p) ==
  /\ pc[p] = "play_setting"
  /\ PoolFree
  /\ LET rtpString == getSetting("rtp_percentage")
     IN  /\ loc' = [loc EXCEPT ![p].rtpPercentage =
                      IF rtpString # << >> THEN parseFloat(rtpString[1]) ELSE DefaultRtp]
         /\ hist' = [hist EXCEPT ![p].settingNull = (rtpString = << >>)]
  /\ pc' = [pc EXCEPT ![p] = "play_update"]
  /\ UNCHANGED << users, game_rounds, settings, rowLock, req, tx, ret, resp, ops, lin,
                  pool, transactions, gateway, route >>

\* Mutant: the prize is not credited.
NewBalanceNoPrize(currentBalance, betAmount, prizeAmount) == currentBalance - betAmount

\* Mutant: the rollover is not clamped at zero.
NewRolloverUnclamped(currentRollover, betAmount) == currentRollover - betAmount

\* Mutant: the UPDATE runs outside the transaction (on the pool) and is
\* committed at once.
TxUpdateAutocommit(p, row) ==
  /\ tx' = [tx EXCEPT ![p].row = << row >>]
  /\ users' = [users EXCEPT ![req[p].userId] = row]

\* The balance and the rollover a round writes.
NewBalance(currentBalance, betAmount, prizeAmount) ==
  IF currentBalance = NaN \/ prizeAmount = NaN THEN NaN
  ELSE currentBalance - betAmount + prizeAmount
NewRollover(currentRollover, betAmount) == Max(0, currentRollover - betAmount)

\* A write inside the transaction: kept in the transaction until COMMIT.
TxUpdate(p, row) ==
  /\ tx' = [tx EXCEPT ![p].row = << row >>]
  /\ users' = users

\* Mutant: the round's UPDATE also clears first_deposit_made.
RoundRowClearingFlag(row, newBalance, newRollover) ==
  [ row EXCEPT !.balance = Decimal2(newBalance),
               !.rollover_required = Decimal2(newRollover),
               !.first_deposit_made = FALSE ]

\* The row UPDATE users SET balance = $1, rollover_required = $2 leaves.
RoundRow(row, newBalance, newRollover) ==
  [ row EXCEPT !.balance = Decimal2(newBalance),
               !.rollover_required = Decimal2(newRollover) ]

\* calculateScratchPrize with Math.random() = random, and UPDATE users SET
\* balance, rollover_required.
PlayDraw(p, random) ==
  /\ pc[p] = "play_update"
  /\ LET prize == calculateScratchPrize(req[p].amount, loc[p].rtpPercentage, random)
         newBalance == NewBalance(loc[p].currentBalance, req[p].amount, prize.prizeAmount)
         newRollover == NewRollover(loc[p].currentRollover, req[p].amount)
     IN  /\ loc' = [loc EXCEPT ![p].random = random,
                               ![p].base = prize.base,
                               ![p].multiplier = prize.multiplier,
                               ![p].prizeAmount = prize.prizeAmount,
                               ![p].newBalance = newBalance,
                               ![p].newRollover = newRollover]
         /\ TxUpdate(p, RoundRow(users[req[p].userId], newBalance, newRollover))
  /\ pc' = [pc EXCEPT ![p] = "play_insert"]
  /\ UNCHANGED << game_rounds, settings, rowLock, req, ret, resp, hist, ops, lin,
                  pool, transactions, gateway, route >>

PlayUpdate(p) == \E random \in Draws : PlayDraw(p, random)

\* Mutant: the record takes the RTP from the setting as it is at the INSERT.
RoundRecordRereading(p) ==
  [ user_id |-> req[p].userId, game_type |-> "scratch_card",
    bet_amount |-> Decimal2(req[p].amount), prize_amount |-> Decimal2(loc[p].prizeAmount),
    base |-> loc[p].base,
    rtp |-> IF getSetting("rtp_percentage") # << >>
            THEN parseFloat(getSetting("rtp_percentage")[1]) ELSE DefaultRtp ]

\* The values of INSERT INTO game_rounds; rtp is that of result_data.
RoundRecord(p) ==
  [ user_id |-> req[p].userId, game_type |-> "scratch_card",
    bet_amount |-> Decimal2(req[p].amount), prize_amount |-> Decimal2(loc[p].prizeAmount),
    base |-> loc[p].base, rtp |-> loc[p].rtpPercentage ]

\* INSERT INTO game_rounds.
PlayInsert(p) ==
  /\ pc[p] = "play_insert"
  /\ tx' = [tx EXCEPT ![p].rounds = Append(@, RoundRecord(p))]
  /\ pc' = [pc EXCEPT ![p] = "play_commit"]
  /\ UNCHANGED << users, game_rounds, settings, rowLock, req, loc, ret, resp, hist, ops, lin,
                  pool, transactions, gateway, route >>

\* The INSERT fails (a storage error): control passes to the catch block.
PlayInsertFail(p) ==
  /\ pc[p] = "play_insert"
  /\ loc' = [loc EXCEPT ![p].error = MsgStorage]
  /\ pc' = [pc EXCEPT ![p] = "play_rollback"]
  /\ UNCHANGED << users, game_rounds, settings, rowLock, req, tx, ret, resp, hist, ops, lin,
                  pool, transactions, gateway, route >>

\* The ledger row after a round of `betAmount` with `prizeAmount`, applied to `row`.
LinRound(row, betAmount, prizeAmount) ==
  [ row EXCEPT !.balance = Decimal2(NewBalance(row.balance, betAmount, prizeAmount)),
               !.rollover_required = Decimal2(Max(0, row.rollover_required - betAmount)) ]

\* COMMIT, and the result returned (sent with status 200 by the route).
PlayCommit(p) ==
  /\ pc[p] = "play_commit"
  /\ users' = CommittedUsers(p, req[p].userId)
  /\ game_rounds' = CommittedRounds(p)
  /\ rowLock' = Release(p)
  /\ lin' = LinRound(lin, req[p].amount, loc[p].prizeAmount)
  /\ Finish(p, [ NoRet EXCEPT !.status = "ok", !.prize = loc[p].prizeAmount,
                              !.finalBalance = loc[p].newBalance ],
               IF req[p].via = "http" THEN [ status |-> 200, allowed_bets |-> FALSE ] ELSE NoResp)
  /\ UNCHANGED << settings, req, hist, ops, transactions, gateway, route >>

\* catch: ROLLBACK, rethrow; finally: release.  The route passes the error to
\* errorHandler.
PlayRollback(p) ==
  /\ pc[p] = "play_rollback"
  /\ rowLock' = Release(p)
  /\ Finish(p, ErrorRet(loc[p].error), Thrown(p, loc[p].error))
  /\ UNCHANGED << users, game_rounds, settings, req, hist, ops, lin, transactions, gateway, route >>

(***************************************************************************)
(* updateUserBalance(userId, amount, operation).                           *)
(***************************************************************************)
\* The call, up to pool.connect() and BEGIN.
BalanceRequest(p, userId, amount, operation) ==
  /\ Issue(p, [ kind |-> "balance", via |-> "call", userId |-> userId,
                amount |-> amount, operation |-> operation, body |-> NoBody ], TRUE)
  /\ pc' = [pc EXCEPT ![p] = "ub_select"]
  /\ ret' = [ret EXCEPT ![p] = NoRet]
  /\ resp' = [resp EXCEPT ![p] = NoResp]
  /\ UNCHANGED << users, game_rounds, settings, rowLock, loc, tx, lin,
                  transactions, gateway, route >>

\* Mutant: the subtraction is not checked against a negative result.
BalanceErrorUnchecked(operation, newBalance) ==
  IF operation \in { "add", "subtract" } THEN << >> ELSE MsgInvalidOperation

\* The error updateUserBalance throws for newBalance, or none.
BalanceError(operation, newBalance) ==
  IF operation = "add" THEN << >>
  ELSE IF operation = "subtract"
  THEN (IF newBalance # NaN /\ newBalance < 0 THEN MsgInsufficient ELSE << >>)
  ELSE MsgInvalidOperation

\* SELECT balance ... FOR UPDATE, the new balance computed from it, and
\* UPDATE users SET balance.
UbSelect(p) ==
  /\ pc[p] = "ub_select"
  /\ LockFree(p, req[p].userId)
  /\ rowLock' = Lock(p, req[p].userId)
  /\ hist' = [hist EXCEPT ![p].locked = Holds(Lock(p, req[p].userId), p, req[p].userId)]
  /\ IF req[p].userId \notin Users
     THEN /\ loc' = [loc EXCEPT ![p].error = MsgNotFound]
          /\ pc' = [pc EXCEPT ![p] = "ub_rollback"]
          /\ UNCHANGED << users, tx >>
     ELSE LET currentBalance == users[req[p].userId].balance
              newBalance == IF currentBalance = NaN THEN NaN
                            ELSE IF req[p].operation = "add"
                            THEN currentBalance + req[p].amount
                            ELSE currentBalance - req[p].amount
              error == BalanceError(req[p].operation, newBalance)
          IN  /\ loc' = [loc EXCEPT ![p].currentBalance = currentBalance,
                                    ![p].newBalance = newBalance,
                                    ![p].error = error]
              /\ IF error = << >>
                 THEN /\ TxUpdate(p, [ users[req[p].userId] EXCEPT
                                         !.balance = Decimal2(newBalance) ])
                      /\ pc' = [pc EXCEPT ![p] = "ub_commit"]
                 ELSE /\ pc' = [pc EXCEPT ![p] = "ub_rollback"]
                      /\ UNCHANGED << users, tx >>
  /\ UNCHANGED << game_rounds, settings, req, ret, resp, ops, lin,
                  pool, transactions, gateway, route >>

\* The ledger row after operation(amount), applied to `row`.
LinBalance(row, amount, operation) ==
  [ row EXCEPT !.balance =
      Decimal2(IF row.balance = NaN THEN NaN
               ELSE IF operation = "add" THEN row.balance + amount ELSE row.balance - amount) ]

\* COMMIT; returns newBalance.
UbCommit(p) ==
  /\ pc[p] = "ub_commit"
  /\ users' = CommittedUsers(p, req[p].userId)
  /\ game_rounds' = CommittedRounds(p)
  /\ rowLock' = Release(p)
  /\ lin' = LinBalance(lin, req[p].amount, req[p].operation)
  /\ Finish(p, [ NoRet EXCEPT !.status = "ok", !.finalBalance = loc[p].newBalance ], NoResp)
  /\ UNCHANGED << settings, req, hist, ops, transactions, gateway, route >>

\* catch: ROLLBACK, rethrow; finally: release.
UbRollback(p) ==
  /\ pc[p] = "ub_rollback"
  /\ rowLock' = Release(p)
  /\ Finish(p, ErrorRet(loc[p].error), NoResp)
  /\ UNCHANGED << users, game_rounds, settings, req, hist, ops, lin, transactions, gateway, route >>

(***************************************************************************)
(* applyFirstDepositRollover(userId, amount).                              *)
(***************************************************************************)
\* The call, up to pool.connect() and BEGIN.
RolloverRequest(p, userId, amount) ==
  /\ Issue(p, [ kind |-> "rollover", via |-> "call", userId |-> userId,
                amount |-> amount, operation |-> "none", body |-> NoBody ], TRUE)
  /\ pc' = [pc EXCEPT ![p] = "af_update"]
  /\ ret' = [ret EXCEPT ![p] = NoRet]
  /\ resp' = [resp EXCEPT ![p] = NoResp]
  /\ UNCHANGED << users, game_rounds, settings, rowLock, loc, tx, lin,
                  transactions, gateway, route >>

\* Mutant: the WHERE clause does not test first_deposit_made.
RolloverMatchesAnyFlag(userId) == userId \in Users

\* WHERE id = $2 AND first_deposit_made = false, on the committed row.
RolloverMatches(userId) == userId \in Users /\ ~users[userId].first_deposit_made

\* UPDATE users SET rollover_required = rollover_required + $1,
\* first_deposit_made = true WHERE ... RETURNING: one statement, which waits
\* for the row's lock and then tests the row as last committed.
AfUpdate(p) ==
  /\ pc[p] = "af_update"
  /\ IF RolloverMatches(req[p].userId)
     THEN /\ LockFree(p, req[p].userId)
          /\ rowLock' = Lock(p, req[p].userId)
          /\ TxUpdate(p, [ users[req[p].userId] EXCEPT
                             !.rollover_required = Decimal2(@ + req[p].amount),
                             !.first_deposit_made = TRUE ])
          /\ loc' = [loc EXCEPT ![p].rows = 1]
          /\ hist' = [hist EXCEPT ![p].locked = Holds(Lock(p, req[p].userId), p, req[p].userId)]
     ELSE /\ loc' = [loc EXCEPT ![p].rows = 0]
          /\ UNCHANGED << users, rowLock, tx, hist >>
  /\ pc' = [pc EXCEPT ![p] = "af_commit"]
  /\ UNCHANGED << game_rounds, settings, req, ret, resp, ops, lin,
                  pool, transactions, gateway, route >>

\* Mutant: the call reports an activation whatever the UPDATE matched.
RolloverAppliedAlways(rows) == rows >= 0

\* return result.rows.length > 0.
RolloverApplied(rows) == rows > 0

\* The ledger row after a rollover activation of `amount`, applied to `row`.
LinRollover(row, amount) ==
  IF row.first_deposit_made THEN row
  ELSE [ row EXCEPT !.rollover_required = Decimal2(@ + amount), !.first_deposit_made = TRUE ]

\* COMMIT; returns result.rows.length > 0.
AfCommit(p) ==
  /\ pc[p] = "af_commit"
  /\ users' = CommittedUsers(p, req[p].userId)
  /\ game_rounds' = CommittedRounds(p)
  /\ rowLock' = Release(p)
  /\ lin' = IF req[p].userId \in Users THEN LinRollover(lin, req[p].amount) ELSE lin
  /\ Finish(p, [ NoRet EXCEPT !.status = "ok", !.applied = RolloverApplied(loc[p].rows) ], NoResp)
  /\ UNCHANGED << settings, req, hist, ops, transactions, gateway, route >>

\* A statement of updateUserBalance fails (a storage error): control passes
\* to the catch block.
UbFail(p) ==
  /\ pc[p] \in { "ub_select", "ub_commit" }
  /\ loc' = [loc EXCEPT ![p].error = MsgStorage]
  /\ pc' = [pc EXCEPT ![p] = "ub_rollback"]
  /\ UNCHANGED << users, game_rounds, settings, rowLock, req, tx, ret, resp, hist, ops, lin,
                  pool, transactions, gateway, route >>

\* A statement of playScratchCard after BEGIN fails (a storage error): control
\* passes to the catch block.
PlayFail(p) ==
  /\ pc[p] \in { "play_select", "play_setting", "play_update", "play_insert", "play_commit" }
  /\ loc' = [loc EXCEPT ![p].error = MsgStorage]
  /\ pc' = [pc EXCEPT ![p] = "play_rollback"]
  /\ UNCHANGED << users, game_rounds, settings, rowLock, req, tx, ret, resp, hist, ops, lin,
                  pool, transactions, gateway, route >>

\* The UPDATE or the COMMIT of applyFirstDepositRollover fails (a storage
\* error): control passes to the catch block.
AfFail(p) ==
  /\ pc[p] \in { "af_update", "af_commit" }
  /\ loc' = [loc EXCEPT ![p].error = MsgStorage]
  /\ pc' = [pc EXCEPT ![p] = "af_rollback"]
  /\ UNCHANGED << users, game_rounds, settings, rowLock, req, tx, ret, resp, hist, ops, lin,
                  pool, transactions, gateway, route >>

\* catch: ROLLBACK, rethrow; finally: release.
AfRollback(p) ==
  /\ pc[p] = "af_rollback"
  /\ rowLock' = Release(p)
  /\ Finish(p, ErrorRet(loc[p].error), NoResp)
  /\ UNCHANGED << users, game_rounds, settings, req, hist, ops, lin, transactions, gateway, route >>

(***************************************************************************)
(* POST /api/admin/rtp and setSetting.                                     *)
(***************************************************************************)
\* !value for a JSON value: absent, the number 0 or NaN, or the empty string
\* (no body of the model carries an empty string).
Falsy(body) ==
  \/ body.type = "undefined"
  \/ body.type = "number" /\ body.text.value \in { 0, NaN }

\* a < b as JavaScript compares a JSON value with a number: the value is
\* converted to a number, and a comparison with NaN is false.
BodyLess(body, n) == ToNumber(body.text) # NaN /\ ToNumber(body.text) < n
BodyGreater(body, n) == ToNumber(body.text) # NaN /\ ToNumber(body.text) > n

\* !rtp_percentage || rtp_percentage < 50 || rtp_percentage > 99.
RtpRejected(rtp_percentage) ==
  \/ Falsy(rtp_percentage)
  \/ BodyLess(rtp_percentage, 5000)
  \/ BodyGreater(rtp_percentage, 9900)

\* setSetting: INSERT ... ON CONFLICT (key) DO UPDATE SET value.
setSetting(key, value) ==
  [ k \in DOMAIN settings \cup { key } |-> IF k = key THEN value ELSE settings[k] ]

\* The route: 400 for a rejected value; otherwise the value's toString() is
\* stored and the answer is 200.
AdminRtp(p, rtp_percentage) ==
  /\ Issue(p, [ kind |-> "rtp", via |-> "http", userId |-> "u1", amount |-> 0,
                operation |-> "none", body |-> rtp_percentage ], FALSE)
  /\ ~RtpRejected(rtp_percentage) => PoolFree
  /\ IF RtpRejected(rtp_percentage)
     THEN /\ settings' = settings
          /\ resp' = [resp EXCEPT ![p] = [ status |-> 400, allowed_bets |-> FALSE ]]
     ELSE /\ settings' = setSetting("rtp_percentage", rtp_percentage.text)
          /\ resp' = [resp EXCEPT ![p] = [ status |-> 200, allowed_bets |-> FALSE ]]
  /\ ret' = [ret EXCEPT ![p] = NoRet]
  /\ UNCHANGED << users, game_rounds, rowLock, pc, loc, tx, lin, transactions, gateway, route >>

(***************************************************************************)
(* Route handlers.  A handler runs in a request slot; where it awaits one  *)
(* of updateUserBalance and applyFirstDepositRollover, that call runs in   *)
(* the same slot and the handler goes on when it has returned.             *)
(***************************************************************************)
RouteIdle(p) == route[p].step \in { "idle", "done" } /\ pc[p] = "idle"

\* A new HTTP request on a slot that runs nothing.
Start(p) ==
  /\ RouteIdle(p)
  /\ ops < MaxOps
  /\ ops' = ops + 1

\* The handler awaits the core function `kind`, which begins with
\* pool.connect() and BEGIN.
Call(p, kind, pc0, userId, amount, operation) ==
  /\ pc[p] = "idle"
  /\ PoolFree
  /\ pool' = [pool EXCEPT !.clients = @ \cup { p }]
  /\ pc' = [pc EXCEPT ![p] = pc0]
  /\ req' = [req EXCEPT ![p] = [ kind |-> kind, via |-> "call", userId |-> userId,
                                 amount |-> amount, operation |-> operation, body |-> NoBody ]]
  /\ ret' = [ret EXCEPT ![p] = NoRet]
  /\ hist' = [hist EXCEPT ![p] =
       [ began |-> TRUE, locked |-> FALSE,
         firstDepositMadeAtCall |-> (userId \in Users /\ users[userId].first_deposit_made),
         settingNull |-> FALSE ]]

\* The handler makes no call in this step.
NoCall == UNCHANGED << pool, pc, req, ret, hist >>

\* The awaited call of slot p has returned, or thrown.
Returned(p) == pc[p] = "idle"
Threw(p) == ret[p].status = "error"

\* The handler answers with `status` and ends.
Respond(p, r, status) ==
  /\ route' = [route EXCEPT ![p] = [ r EXCEPT !.step = "done" ]]
  /\ resp' = [resp EXCEPT ![p] = [ status |-> status, allowed_bets |-> FALSE ]]

\* The handler goes on to `step`.
Goto(p, r, step) ==
  /\ route' = [route EXCEPT ![p] = [ r EXCEPT !.step = step ]]
  /\ resp' = resp

\* UPDATE transactions SET status = $1 WHERE id = $2.
SetStatus(id, status) == [transactions EXCEPT ![id].status = status]

\* Mutant: the required amount is taken in reais.
CentavosInReais(amount) == amount \div 1000

\* Math.round(parseFloat(amount) * 100): an amount of two decimals, in centavos.
Centavos(amount) == amount \div 10

(***************************************************************************)
(* The gateway and the clock.                                              *)
(***************************************************************************)
\* The customer pays the charge of deposit `id`.
GatewayPay ==
  /\ gateway.charge = "pending"
  /\ gateway' = [gateway EXCEPT !.charge = "paid"]
  /\ UNCHANGED << users, game_rounds, settings, rowLock, pc, req, loc, tx, ret, resp, hist, ops,
                  lin, pool, transactions, route >>

\* The time passes expires_at of row `id`.
ClockExpire(id) ==
  /\ id \in DOMAIN transactions
  /\ transactions[id].expires_at = "future"
  /\ transactions' = [transactions EXCEPT ![id].expires_at = "past"]
  /\ UNCHANGED << users, game_rounds, settings, rowLock, pc, req, loc, tx, ret, resp, hist, ops,
                  lin, pool, gateway, route >>

(***************************************************************************)
(* GET /api/deposit/check/:transactionId.                                  *)
(***************************************************************************)
\* SELECT * FROM transactions WHERE id = $1 AND user_id = $2, and the checks
\* on the row read: 404 without a row; a pending row past expires_at is to be
\* marked expired; a paid or expired row is answered as it is.
PollRequest(p, userId, id) ==
  /\ Start(p)
  /\ PoolFree
  /\ LET found == id \in DOMAIN transactions /\ transactions[id].user_id = userId
         transaction == IF found THEN transactions[id] ELSE NoRow
         r == [ NoRoute EXCEPT !.kind = "poll", !.id = id, !.transaction = transaction ]
     IN  IF ~found THEN Respond(p, r, 404)
         ELSE IF transaction.expires_at = "past" /\ transaction.status = "pending"
         THEN Goto(p, r, "poll_expire")
         ELSE IF transaction.status \in { "paid", "expired" } THEN Respond(p, r, 200)
         ELSE Goto(p, r, "poll_gateway")
  /\ NoCall
  /\ UNCHANGED << users, game_rounds, settings, rowLock, loc, tx, lin, transactions, gateway >>

\* UPDATE transactions SET status = 'expired', and the answer.
PollExpire(p) ==
  /\ route[p].step = "poll_expire"
  /\ PoolFree
  /\ transactions' = SetStatus(route[p].id, "expired")
  /\ Respond(p, [ route[p] EXCEPT !.transaction.status = "expired" ], 200)
  /\ NoCall
  /\ UNCHANGED << users, game_rounds, settings, rowLock, loc, tx, ops, lin, gateway >>

\* BullsPay.listTransactions({ id: transaction.gateway_id }): the status of
\* the charge; nothing more is done if it is the status read from the row.
PollGateway(p) ==
  /\ route[p].step = "poll_gateway"
  /\ LET r == [ route[p] EXCEPT !.status = gateway.charge ]
     IN  IF r.status # r.transaction.status THEN Goto(p, r, "poll_mark")
         ELSE Respond(p, r, 200)
  /\ NoCall
  /\ UNCHANGED << users, game_rounds, settings, rowLock, loc, tx, ops, lin, transactions,
                  gateway >>

\* UPDATE transactions SET status = bullsPayTx.status; for 'paid', the call
\* of updateUserBalance(userId, transaction.amount, 'add').
PollMark(p) ==
  /\ route[p].step = "poll_mark"
  /\ PoolFree
  /\ transactions' = SetStatus(route[p].id, route[p].status)
  /\ IF route[p].status = "paid"
     THEN /\ Call(p, "balance", "ub_select", route[p].transaction.user_id,
                  route[p].transaction.amount, "add")
          /\ Goto(p, route[p], "poll_credit")
     ELSE /\ NoCall
          /\ Respond(p, [ route[p] EXCEPT !.transaction.status = route[p].status ], 200)
  /\ UNCHANGED << users, game_rounds, settings, rowLock, loc, tx, ops, lin, gateway >>

\* updateUserBalance has returned: the call of applyFirstDepositRollover; an
\* error goes to next(error).
PollCredited(p) ==
  /\ route[p].step = "poll_credit"
  /\ Returned(p)
  /\ IF Threw(p)
     THEN /\ NoCall
          /\ Respond(p, [ route[p] EXCEPT !.error = ret[p].message ],
                     errorHandler(ret[p].message))
     ELSE /\ Call(p, "rollover", "af_update", route[p].transaction.user_id,
                  route[p].transaction.amount, "none")
          /\ Goto(p, route[p], "poll_rollover")
  /\ UNCHANGED << users, game_rounds, settings, rowLock, loc, tx, ops, lin, transactions,
                  gateway >>

\* applyFirstDepositRollover has returned: the answer.
PollActivated(p) ==
  /\ route[p].step = "poll_rollover"
  /\ Returned(p)
  /\ IF Threw(p)
     THEN Respond(p, [ route[p] EXCEPT !.error = ret[p].message ], errorHandler(ret[p].message))
     ELSE Respond(p, [ route[p] EXCEPT !.transaction.status = route[p].status ], 200)
  /\ NoCall
  /\ UNCHANGED << users, game_rounds, settings, rowLock, loc, tx, ops, lin, transactions,
                  gateway >>

(***************************************************************************)
(* GET /api/withdrawal/check/:transactionId.                               *)
(***************************************************************************)
\* SELECT * FROM transactions WHERE id = $1 AND user_id = $2, and the check
\* of the status read: 404 without a row; a paid, failed or canceled row is
\* answered as it is.
WithdrawalCheckRequest(p, userId, id) ==
  /\ Start(p)
  /\ PoolFree
  /\ LET found == id \in DOMAIN transactions /\ transactions[id].user_id = userId
         transaction == IF found THEN transactions[id] ELSE NoRow
         r == [ NoRoute EXCEPT !.kind = "wcheck", !.id = id, !.user_id = userId,
                               !.transaction = transaction ]
     IN  IF ~found THEN Respond(p, r, 404)
         ELSE IF transaction.status \in { "paid", "failed", "canceled" } THEN Respond(p, r, 200)
         ELSE Goto(p, r, "wc_gateway")
  /\ NoCall
  /\ UNCHANGED << users, game_rounds, settings, rowLock, loc, tx, lin, transactions, gateway >>

\* BullsPay.listWithdrawals({ id: transaction.gateway_id }): the status of
\* the payout; nothing more is done if the list is empty or the status is the
\* one read from the row.
WithdrawalCheckGateway(p) ==
  /\ route[p].step = "wc_gateway"
  /\ LET r == [ route[p] EXCEPT !.status = gateway.withdrawal ]
     IN  IF gateway.withdrawal # "none" /\ r.status # r.transaction.status
         THEN Goto(p, r, "wc_mark")
         ELSE Respond(p, route[p], 200)
  /\ NoCall
  /\ UNCHANGED << users, game_rounds, settings, rowLock, loc, tx, ops, lin, transactions,
                  gateway >>

\* UPDATE transactions SET status = bullsPayWd.status; for 'failed' and
\* 'canceled', the call of updateUserBalance(req.user.userId, amount, 'add').
WithdrawalCheckMark(p) ==
  /\ route[p].step = "wc_mark"
  /\ PoolFree
  /\ transactions' = SetStatus(route[p].id, route[p].status)
  /\ IF route[p].status \in { "failed", "canceled" }
     THEN /\ Call(p, "balance", "ub_select", route[p].user_id, route[p].transaction.amount,
                  "add")
          /\ Goto(p, route[p], "wc_return")
     ELSE /\ NoCall
          /\ Respond(p, [ route[p] EXCEPT !.transaction.status = route[p].status ], 200)
  /\ UNCHANGED << users, game_rounds, settings, rowLock, loc, tx, ops, lin, gateway >>

\* updateUserBalance has returned: the answer; an error goes to next(error).
WithdrawalCheckReturned(p) ==
  /\ route[p].step = "wc_return"
  /\ Returned(p)
  /\ IF Threw(p)
     THEN Respond(p, [ route[p] EXCEPT !.error = ret[p].message ], errorHandler(ret[p].message))
     ELSE Respond(p, [ route[p] EXCEPT !.transaction.status = route[p].status ], 200)
  /\ NoCall
  /\ UNCHANGED << users, game_rounds, settings, rowLock, loc, tx, ops, lin, transactions,
                  gateway >>

(***************************************************************************)
(* POST /api/admin/refund/:transactionId.                                  *)
(***************************************************************************)
\* SELECT * FROM transactions WHERE id = $1, and the checks on the row read:
\* 404 without a row, 400 unless it is a deposit in status 'paid'.
RefundRequest(p, id) ==
  /\ Start(p)
  /\ PoolFree
  /\ LET found == id \in DOMAIN transactions
         r == [ NoRoute EXCEPT !.kind = "refund", !.id = id,
                               !.transaction = IF found THEN transactions[id] ELSE NoRow ]
     IN  IF ~found THEN Respond(p, r, 404)
         ELSE IF r.transaction.type # "deposit" \/ r.transaction.status # "paid"
         THEN Respond(p, r, 400)
         ELSE Goto(p, r, "rf_gateway")
  /\ NoCall
  /\ UNCHANGED << users, game_rounds, settings, rowLock, loc, tx, lin, transactions, gateway >>

\* BullsPay.refundTransaction(gateway_id): the gateway refunds a paid charge.
RefundGateway(p) ==
  /\ route[p].step = "rf_gateway"
  /\ gateway.charge = "paid"
  /\ gateway' = [gateway EXCEPT !.charge = "refunded", !.refunds = @ + 1]
  /\ Goto(p, route[p], "rf_mark")
  /\ NoCall
  /\ UNCHANGED << users, game_rounds, settings, rowLock, loc, tx, ops, lin, transactions >>

\* BullsPay.refundTransaction throws (the gateway answers with an error):
\* next(error).
RefundGatewayFail(p) ==
  /\ route[p].step = "rf_gateway"
  /\ Respond(p, [ route[p] EXCEPT !.error = MsgGateway ], errorHandler(MsgGateway))
  /\ NoCall
  /\ UNCHANGED << users, game_rounds, settings, rowLock, loc, tx, ops, lin, transactions,
                  gateway >>

\* UPDATE transactions SET status = 'refunded', and the call of
\* updateUserBalance(transaction.user_id, transaction.amount, 'subtract').
RefundMark(p) ==
  /\ route[p].step = "rf_mark"
  /\ PoolFree
  /\ transactions' = SetStatus(route[p].id, "refunded")
  /\ Call(p, "balance", "ub_select", route[p].transaction.user_id,
          route[p].transaction.amount, "subtract")
  /\ Goto(p, route[p], "rf_debit")
  /\ UNCHANGED << users, game_rounds, settings, rowLock, loc, tx, ops, lin, gateway >>

\* updateUserBalance has returned: the answer; if it threw, next(error).
RefundDebited(p) ==
  /\ route[p].step = "rf_debit"
  /\ Returned(p)
  /\ IF Threw(p)
     THEN Respond(p, [ route[p] EXCEPT !.error = ret[p].message ], errorHandler(ret[p].message))
     ELSE Respond(p, route[p], 200)
  /\ NoCall
  /\ UNCHANGED << users, game_rounds, settings, rowLock, loc, tx, ops, lin, transactions,
                  gateway >>

(***************************************************************************)
(* POST /webhook/bullspay.                                                 *)
(***************************************************************************)
\* Mutant: any key is accepted.
isValidWebhookSourceAnyKey(headers) ==
  headers.x_api_key # Undefined \/ headers.authorization # Undefined

\* isValidWebhookSource(req): the X-API-Key header, or else the Authorization
\* header, is the expected key or `Bearer ${expectedKey}`.
isValidWebhookSource(headers) ==
  LET apiKey == IF headers.x_api_key # Undefined THEN headers.x_api_key
                ELSE headers.authorization
      expectedKey == gateway.api_key
  IN  IF apiKey = Undefined THEN FALSE
      ELSE apiKey = expectedKey \/ apiKey = Bearer(expectedKey)

\* isValidWebhookSource, the body's data, and SELECT * FROM transactions
\* WHERE gateway_id = data.unic_id: 401 without the key, { ok: true } without
\* data.unic_id or without a row.  `unic_id` is "none" for a body without it.
WebhookRequest(p, headers, unic_id, newStatus) ==
  /\ Start(p)
  /\ (isValidWebhookSource(headers) /\ unic_id # "none") => PoolFree
  /\ LET valid == isValidWebhookSource(headers)
         ids == { i \in DOMAIN transactions : transactions[i].gateway_id = unic_id }
         id == IF ids = { } THEN 0 ELSE CHOOSE i \in ids : \A j \in ids : i <= j
         r == [ NoRoute EXCEPT !.kind = "webhook", !.id = id, !.status = newStatus,
                               !.headers = headers,
                               !.transaction = IF id = 0 THEN NoRow ELSE transactions[id] ]
     IN  IF ~valid
         THEN Respond(p, [ NoRoute EXCEPT !.kind = "webhook", !.headers = headers ], 401)
         ELSE IF unic_id = "none" \/ id = 0
         THEN Respond(p, [ r EXCEPT !.id = 0, !.transaction = NoRow ], 200)
         ELSE Goto(p, r, "wh_mark")
  /\ NoCall
  /\ UNCHANGED << users, game_rounds, settings, rowLock, loc, tx, lin, transactions, gateway >>

\* The deposit is to be credited: newStatus is 'paid' and the row read was not.
WebhookCredits(r) ==
  r.transaction.type = "deposit" /\ r.status = "paid" /\ r.transaction.status # "paid"

\* The withdrawal is to be returned: newStatus is 'failed' or 'canceled' and
\* the row read was neither.
WebhookReturns(r) ==
  /\ r.transaction.type = "withdrawal"
  /\ r.status \in { "failed", "canceled" }
  /\ r.transaction.status \notin { "failed", "canceled" }

\* UPDATE transactions SET status = newStatus, and the call of
\* updateUserBalance(user_id, amount, 'add') of either branch.
WebhookMark(p) ==
  /\ route[p].step = "wh_mark"
  /\ PoolFree
  /\ transactions' = SetStatus(route[p].id, route[p].status)
  /\ IF WebhookCredits(route[p]) \/ WebhookReturns(route[p])
     THEN /\ Call(p, "balance", "ub_select", route[p].transaction.user_id,
                  route[p].transaction.amount, "add")
          /\ Goto(p, route[p], IF WebhookCredits(route[p]) THEN "wh_credit" ELSE "wh_return")
     ELSE /\ NoCall
          /\ Respond(p, route[p], 200)
  /\ UNCHANGED << users, game_rounds, settings, rowLock, loc, tx, ops, lin, gateway >>

\* updateUserBalance has returned: the call of applyFirstDepositRollover; an
\* error is answered 500.
WebhookCredited(p) ==
  /\ route[p].step = "wh_credit"
  /\ Returned(p)
  /\ IF Threw(p)
     THEN /\ NoCall
          /\ Respond(p, [ route[p] EXCEPT !.error = ret[p].message ], 500)
     ELSE /\ Call(p, "rollover", "af_update", route[p].transaction.user_id,
                  route[p].transaction.amount, "none")
          /\ Goto(p, route[p], "wh_rollover")
  /\ UNCHANGED << users, game_rounds, settings, rowLock, loc, tx, ops, lin, transactions,
                  gateway >>

\* applyFirstDepositRollover, or the updateUserBalance of a returned
\* withdrawal, has returned: { ok: true }, or 500 for an error.
WebhookDone(p) ==
  /\ route[p].step \in { "wh_rollover", "wh_return" }
  /\ Returned(p)
  /\ IF Threw(p)
     THEN Respond(p, [ route[p] EXCEPT !.error = ret[p].message ], 500)
     ELSE Respond(p, route[p], 200)
  /\ NoCall
  /\ UNCHANGED << users, game_rounds, settings, rowLock, loc, tx, ops, lin, transactions,
                  gateway >>

(***************************************************************************)
(* POST /api/withdrawal/create.                                            *)
(***************************************************************************)

\* The catch block: `amount` is declared by the let of the try block, so
\* the test req.user?.userId && amount throws a ReferenceError before
\* updateUserBalance(..., 'add') and before next(error): nothing is
\* returned to the balance and the handler sends no answer.
WithdrawCatch(p, r, message) ==
  /\ route' = [route EXCEPT ![p] = [ r EXCEPT !.step = "done", !.error = MsgReference ]]
  /\ resp' = [resp EXCEPT ![p] = NoResp]
  /\ users' = users

\* getUserById and the checks on the body and on the row read: the minimum
\* amount, the balance, the rollover (whose message calls toFixed on the
\* DECIMAL column, which the driver returns as a string: a TypeError) and the
\* PIX key.  `pixKey`: a key is given or can be filled in.
WithdrawRequest(p, userId, amount, pixKey) ==
  /\ Start(p)
  /\ PoolFree
  /\ LET r == [ NoRoute EXCEPT !.kind = "withdraw", !.amount = amount, !.user = users[userId],
                               !.user_id = userId ]
     IN  IF amount = 0 \/ amount < BRL(10, 0)
         THEN Respond(p, r, 400) /\ users' = users
         ELSE IF r.user.balance # NaN /\ r.user.balance < amount
         THEN Respond(p, r, 400) /\ users' = users
         ELSE IF r.user.rollover_required > 0 THEN WithdrawCatch(p, r, MsgType)
         ELSE IF ~pixKey THEN Respond(p, r, 400) /\ users' = users
         ELSE Goto(p, r, "wd_fraud") /\ users' = users
  /\ NoCall
  /\ UNCHANGED << game_rounds, settings, rowLock, loc, tx, lin, transactions, gateway >>

\* checkUserFraud has returned: the call of updateUserBalance(user.id, amount,
\* 'subtract').
WithdrawDeduct(p) ==
  /\ route[p].step = "wd_fraud"
  /\ Call(p, "balance", "ub_select", route[p].user_id, route[p].amount, "subtract")
  /\ Goto(p, route[p], "wd_deduct")
  /\ UNCHANGED << users, game_rounds, settings, rowLock, loc, tx, ops, lin, transactions,
                  gateway >>

\* updateUserBalance has returned, or thrown.
WithdrawDeducted(p) ==
  /\ route[p].step = "wd_deduct"
  /\ Returned(p)
  /\ IF Threw(p) THEN WithdrawCatch(p, route[p], ret[p].message)
     ELSE Goto(p, [ route[p] EXCEPT !.deducted = TRUE ], "wd_insert") /\ users' = users
  /\ NoCall
  /\ UNCHANGED << game_rounds, settings, rowLock, loc, tx, ops, lin, transactions, gateway >>

\* The row of INSERT INTO transactions ... 'withdrawal', 'pending_approval'.
WithdrawalRow(userId, amount) ==
  [ type |-> "withdrawal", user_id |-> userId, amount |-> Decimal2(amount),
    status |-> "pending_approval", gateway_id |-> "none", expires_at |-> "null" ]

\* INSERT INTO transactions, and the answer.
WithdrawInsert(p) ==
  /\ route[p].step = "wd_insert"
  /\ PoolFree
  /\ transactions' = Append(transactions, WithdrawalRow(route[p].user_id, route[p].amount))
  /\ Respond(p, [ route[p] EXCEPT !.id = Len(transactions) + 1 ], 200)
  /\ NoCall
  /\ UNCHANGED << users, game_rounds, settings, rowLock, loc, tx, ops, lin, gateway >>

\* The INSERT fails (a storage error): control passes to the catch block.
WithdrawInsertFail(p) ==
  /\ route[p].step = "wd_insert"
  /\ WithdrawCatch(p, route[p], MsgStorage)
  /\ NoCall
  /\ UNCHANGED << game_rounds, settings, rowLock, loc, tx, ops, lin, transactions, gateway >>

(***************************************************************************)
(* POST /api/admin/withdrawal/approve/:id.                                 *)
(***************************************************************************)
\* SELECT * FROM transactions WHERE id = $1 AND type = 'withdrawal', and the
\* check of the status read.
ApproveRequest(p, id) ==
  /\ Start(p)
  /\ PoolFree
  /\ LET found == id \in DOMAIN transactions /\ transactions[id].type = "withdrawal"
         r == [ NoRoute EXCEPT !.kind = "approve", !.id = id,
                               !.transaction = IF found THEN transactions[id] ELSE NoRow ]
     IN  IF ~found THEN Respond(p, r, 404)
         ELSE IF r.transaction.status # "pending_approval" THEN Respond(p, r, 400)
         ELSE Goto(p, r, "ap_balance")
  /\ NoCall
  /\ UNCHANGED << users, game_rounds, settings, rowLock, loc, tx, lin, transactions, gateway >>

\* BullsPay.getBalance() and the comparison of available_balance with the
\* amount in centavos: 400 if it is below.
ApproveBalance(p) ==
  /\ route[p].step = "ap_balance"
  /\ LET r == [ route[p] EXCEPT !.available_balance = gateway.available_balance ]
     IN  IF r.available_balance < Centavos(r.transaction.amount) THEN Respond(p, r, 400)
         ELSE Goto(p, r, "ap_payout")
  /\ NoCall
  /\ UNCHANGED << users, game_rounds, settings, rowLock, loc, tx, ops, lin, transactions,
                  gateway >>

\* The catch block of the route, entered with transactionData set: the call
\* of updateUserBalance(user_id, amount, 'add').
ApproveCatch(p, message) ==
  /\ Call(p, "balance", "ub_select", route[p].transaction.user_id,
          route[p].transaction.amount, "add")
  /\ Goto(p, [ route[p] EXCEPT !.error = message ], "ap_return")

\* BullsPay.getBalance() or BullsPay.requestWithdrawal() throws (the gateway
\* answers with an error, or has less than the amount): no payout is made.
ApproveGatewayFail(p) ==
  /\ \/ route[p].step = "ap_balance"
     \/ route[p].step = "ap_payout"
  /\ ApproveCatch(p, MsgGateway)
  /\ UNCHANGED << users, game_rounds, settings, rowLock, loc, tx, ops, lin, transactions,
                  gateway >>

\* BullsPay.requestWithdrawal(): the gateway pays out of its available balance.
ApprovePayout(p) ==
  /\ route[p].step = "ap_payout"
  /\ gateway.available_balance >= Centavos(route[p].transaction.amount)
  /\ gateway' = [gateway EXCEPT
                   !.available_balance = @ - Centavos(route[p].transaction.amount),
                   !.payouts = Append(@, [ id |-> route[p].id,
                                           amount |-> Centavos(route[p].transaction.amount) ])]
  /\ Goto(p, route[p], "ap_mark")
  /\ NoCall
  /\ UNCHANGED << users, game_rounds, settings, rowLock, loc, tx, ops, lin, transactions >>

\* UPDATE transactions SET status = 'approved', gateway_id = ..., and the answer.
ApproveMark(p) ==
  /\ route[p].step = "ap_mark"
  /\ PoolFree
  /\ transactions' = [transactions EXCEPT ![route[p].id].status = "approved",
                                          ![route[p].id].gateway_id = "w1"]
  /\ Respond(p, route[p], 200)
  /\ NoCall
  /\ UNCHANGED << users, game_rounds, settings, rowLock, loc, tx, ops, lin, gateway >>

\* The UPDATE fails (a storage error): control passes to the catch block.
ApproveMarkFail(p) ==
  /\ route[p].step = "ap_mark"
  /\ ApproveCatch(p, MsgStorage)
  /\ UNCHANGED << users, game_rounds, settings, rowLock, loc, tx, ops, lin, transactions,
                  gateway >>

\* The catch block after updateUserBalance: UPDATE transactions SET status =
\* 'failed' unless the call threw, and next(error).
ApproveReturned(p) ==
  /\ route[p].step = "ap_return"
  /\ Returned(p)
  /\ ~Threw(p) => PoolFree
  /\ transactions' = IF Threw(p) THEN transactions ELSE SetStatus(route[p].id, "failed")
  /\ Respond(p, route[p], errorHandler(route[p].error))
  /\ NoCall
  /\ UNCHANGED << users, game_rounds, settings, rowLock, loc, tx, ops, lin, gateway >>

(***************************************************************************)
(* POST /api/admin/withdrawal/reject/:id.                                  *)
(***************************************************************************)
\* SELECT * FROM transactions WHERE id = $1 AND type = 'withdrawal', and the
\* check of the status read.
RejectRequest(p, id) ==
  /\ Start(p)
  /\ PoolFree
  /\ LET found == id \in DOMAIN transactions /\ transactions[id].type = "withdrawal"
         r == [ NoRoute EXCEPT !.kind = "reject", !.id = id,
                               !.transaction = IF found THEN transactions[id] ELSE NoRow ]
     IN  IF ~found THEN Respond(p, r, 404)
         ELSE IF r.transaction.status # "pending_approval" THEN Respond(p, r, 400)
         ELSE Goto(p, r, "rj_balance")
  /\ NoCall
  /\ UNCHANGED << users, game_rounds, settings, rowLock, loc, tx, lin, transactions, gateway >>

\* The call of updateUserBalance(transaction.user_id, transaction.amount, 'add').
RejectBalance(p) ==
  /\ route[p].step = "rj_balance"
  /\ Call(p, "balance", "ub_select", route[p].transaction.user_id,
          route[p].transaction.amount, "add")
  /\ Goto(p, route[p], "rj_mark")
  /\ UNCHANGED << users, game_rounds, settings, rowLock, loc, tx, ops, lin, transactions,
                  gateway >>

\* updateUserBalance has returned: UPDATE transactions SET status = 'rejected'
\* and the answer; if it threw, next(error).
RejectMark(p) ==
  /\ route[p].step = "rj_mark"
  /\ Returned(p)
  /\ ~Threw(p) => PoolFree
  /\ transactions' = IF Threw(p) THEN transactions ELSE SetStatus(route[p].id, "rejected")
  /\ IF Threw(p)
     THEN Respond(p, [ route[p] EXCEPT !.error = ret[p].message ], errorHandler(ret[p].message))
     ELSE Respond(p, route[p], 200)
  /\ NoCall
  /\ UNCHANGED << users, game_rounds, settings, rowLock, loc, tx, ops, lin, gateway >>

\* The UPDATE fails (a storage error): next(error).
RejectMarkFail(p) ==
  /\ route[p].step = "rj_mark"
  /\ Returned(p)
  /\ ~Threw(p)
  /\ Respond(p, [ route[p] EXCEPT !.error = MsgStorage ], errorHandler(MsgStorage))
  /\ NoCall
  /\ UNCHANGED << users, game_rounds, settings, rowLock, loc, tx, ops, lin, transactions,
                  gateway >>

(***************************************************************************)
(* The general specification: NumProcs request slots, any requests.        *)
(***************************************************************************)
InitProcs(P) ==
  /\ pc = [ p \in P |-> "idle" ]
  /\ req = [ p \in P |-> NoReq ]
  /\ loc = [ p \in P |-> NoLoc ]
  /\ tx = [ p \in P |-> NoTx ]
  /\ ret = [ p \in P |-> NoRet ]
  /\ resp = [ p \in P |-> NoResp ]
  /\ hist = [ p \in P |-> NoHist ]
  /\ pool = [ max |-> DefaultPoolMax, clients |-> { } ]
  /\ transactions = << >>
  /\ gateway = NoGateway
  /\ route = [ p \in P |-> NoRoute ]

Init ==
  /\ users = [ u \in Users |-> NewUserRow ]
  /\ game_rounds = << >>
  /\ \E rtp \in InitialRtp : settings = [ k \in { "rtp_percentage" } |-> NumberText(rtp) ]
  /\ rowLock = [ u \in Users |-> { } ]
  /\ InitProcs(Procs)
  /\ ops = 0
  /\ lin = NewUserRow

Next ==
  \E p \in Procs :
    \/ \E via \in { "http", "call" }, userId \in UserIds, betAmount \in ScratchBets :
         ScratchRequest(p, via, userId, betAmount)
    \/ PlaySelect(p)
    \/ PlayGetSetting(p)
    \/ PlayUpdate(p)
    \/ PlayInsert(p)
    \/ PlayInsertFail(p)
    \/ PlayCommit(p)
    \/ PlayRollback(p)
    \/ \E userId \in Users, amount \in Amounts, operation \in { "add", "subtract" } :
         BalanceRequest(p, userId, amount, operation)
    \/ UbSelect(p)
    \/ UbCommit(p)
    \/ UbRollback(p)
    \/ \E userId \in Users, amount \in Amounts : RolloverRequest(p, userId, amount)
    \/ AfUpdate(p)
    \/ AfCommit(p)

Spec == Init /\ [][Next]_vars

(***************************************************************************)
(* Race of N rounds: RaceProcs calls of playScratchCard with the same      *)
(* allowed bet are in flight (each has passed the bet check and begun its  *)
(* transaction) for a user whose balance is exactly that bet.              *)
(***************************************************************************)
RaceBets == { BRL(10, 0), BRL(0, 50) }
RaceRtp == { 9500, 5000 }

InitRace(P, row, kind, pc0, amounts) ==
  /\ users = [ u \in Users |-> row ]
  /\ game_rounds = << >>
  /\ rowLock = [ u \in Users |-> { } ]
  /\ pc = [ p \in P |-> pc0 ]
  /\ req = [ p \in P |-> [ kind |-> kind, via |-> "call", userId |-> "u1",
                           amount |-> amounts[p], operation |-> "none", body |-> NoBody ] ]
  /\ loc = [ p \in P |-> NoLoc ]
  /\ tx = [ p \in P |-> NoTx ]
  /\ ret = [ p \in P |-> NoRet ]
  /\ resp = [ p \in P |-> NoResp ]
  /\ hist = [ p \in P |-> [ NoHist EXCEPT !.began = TRUE ] ]
  /\ pool = [ max |-> DefaultPoolMax, clients |-> P ]
  /\ transactions = << >>
  /\ gateway = NoGateway
  /\ route = [ p \in P |-> NoRoute ]
  /\ ops = 0
  /\ lin = row

InitScratchRace ==
  /\ \E rtp \in RaceRtp : settings = [ k \in { "rtp_percentage" } |-> NumberText(rtp) ]
  /\ \E betAmount \in RaceBets :
       InitRace(Racers, [ NewUserRow EXCEPT !.balance = betAmount ], "scratch",
                "play_select", [ p \in Racers |-> betAmount ])

NextScratchRace ==
  \E p \in Racers :
    \/ PlaySelect(p)
    \/ PlayGetSetting(p)
    \/ PlayUpdate(p)
    \/ PlayInsert(p)
    \/ PlayCommit(p)
    \/ PlayRollback(p)

SpecScratchRace == InitScratchRace /\ [][NextScratchRace]_vars

(***************************************************************************)
(* Race of N rollover activations: RaceProcs calls of                      *)
(* applyFirstDepositRollover, with equal or different amounts, are in      *)
(* flight for a user whose first_deposit_made is false.                    *)
(***************************************************************************)
InitRolloverRace ==
  /\ settings = [ k \in { "rtp_percentage" } |-> NumberText(DefaultRtp) ]
  /\ \E amounts \in [ Racers -> Amounts ] :
       InitRace(Racers, NewUserRow, "rollover", "af_update", amounts)

NextRolloverRace ==
  \E p \in Racers :
    \/ AfUpdate(p)
    \/ AfCommit(p)

SpecRolloverRace == InitRolloverRace /\ [][NextRolloverRace]_vars

(***************************************************************************)
(* Bet validation: requests with allowed bets, bets that are not allowed,  *)
(* and amounts with more than two decimals, for a user with R$ 20,00.      *)
(***************************************************************************)
BetInputs == { 0, BRL(7, 0), BRL(7, 0) + 4, BRL(10, 0) + 4 }

InitBets ==
  /\ users = [ u \in Users |-> [ NewUserRow EXCEPT !.balance = BRL(20, 0) ] ]
  /\ game_rounds = << >>
  /\ settings = [ k \in { "rtp_percentage" } |-> NumberText(DefaultRtp) ]
  /\ rowLock = [ u \in Users |-> { } ]
  /\ InitProcs(Procs)
  /\ ops = 0
  /\ lin = [ NewUserRow EXCEPT !.balance = BRL(20, 0) ]

NextBets ==
  \E p \in Procs :
    \/ \E via \in { "http", "call" }, userId \in Users, betAmount \in BetInputs :
         ScratchRequest(p, via, userId, betAmount)
    \/ PlaySelect(p)
    \/ PlayGetSetting(p)
    \/ PlayUpdate(p)
    \/ PlayInsert(p)
    \/ PlayCommit(p)
    \/ PlayRollback(p)

SpecBets == InitBets /\ [][NextBets]_vars

(***************************************************************************)
(* The prize function: one call of playScratchCard for each allowed bet    *)
(* and each RTP of PrizeRtps, by a user with R$ 50,00, with draws at the   *)
(* ends of [0, 1) and on both sides of every threshold of every bet.       *)
(***************************************************************************)
Player == { 1 }

PrizeDraws ==
  { 0, 9999 } \cup
  UNION { { Threshold1(b) - 1, Threshold1(b), Threshold2(b) - 1, Threshold2(b),
            Threshold3(b) - 1, Threshold3(b), Threshold4(b) - 1, Threshold4(b) } :
          b \in ALLOWED_BETS }

InitPrize ==
  /\ \E rtp \in PrizeRtps : settings = [ k \in { "rtp_percentage" } |-> NumberText(rtp) ]
  /\ \E betAmount \in ALLOWED_BETS :
       InitRace(Player, [ NewUserRow EXCEPT !.balance = BRL(50, 0) ], "scratch",
                "play_select", [ p \in Player |-> betAmount ])

NextPrize ==
  \E p \in Player :
    \/ PlaySelect(p)
    \/ PlayGetSetting(p)
    \/ \E random \in PrizeDraws : PlayDraw(p, random)
    \/ PlayInsert(p)
    \/ PlayCommit(p)

SpecPrize == InitPrize /\ [][NextPrize]_vars

(***************************************************************************)
(* The RTP setting: admin requests with numbers inside and outside         *)
(* [50, 99], a numeral string, a string that is no numeral and no value,   *)
(* interleaved with rounds of R$ 10,00 by a user with R$ 20,00.            *)
(***************************************************************************)
RtpBodies ==
  { NoBody, NumberBody(4999), NumberBody(5000), NumberBody(9900), NumberBody(9901),
    StringBody(NumberText(7500)), StringBody(OtherText(NaN)) }

InitRtp ==
  /\ users = [ u \in Users |-> [ NewUserRow EXCEPT !.balance = BRL(20, 0) ] ]
  /\ game_rounds = << >>
  /\ settings = [ k \in { "rtp_percentage" } |-> NumberText(DefaultRtp) ]
  /\ rowLock = [ u \in Users |-> { } ]
  /\ InitProcs(Procs)
  /\ ops = 0
  /\ lin = [ NewUserRow EXCEPT !.balance = BRL(20, 0) ]

NextRtp ==
  \E p \in Procs :
    \/ \E rtp_percentage \in RtpBodies : AdminRtp(p, rtp_percentage)
    \/ ScratchRequest(p, "http", "u1", BRL(10, 0))
    \/ PlaySelect(p)
    \/ PlayGetSetting(p)
    \/ PlayUpdate(p)
    \/ PlayInsert(p)
    \/ PlayCommit(p)
    \/ PlayRollback(p)

SpecRtp == InitRtp /\ [][NextRtp]_vars

(***************************************************************************)
(* The same, on a settings table whose rtp_percentage row is missing.      *)
(***************************************************************************)
InitRtpMissing ==
  /\ users = [ u \in Users |-> [ NewUserRow EXCEPT !.balance = BRL(20, 0) ] ]
  /\ game_rounds = << >>
  /\ settings = [ k \in { } |-> NumberText(DefaultRtp) ]
  /\ rowLock = [ u \in Users |-> { } ]
  /\ InitProcs(Procs)
  /\ ops = 0
  /\ lin = [ NewUserRow EXCEPT !.balance = BRL(20, 0) ]

SpecRtpMissing == InitRtpMissing /\ [][NextRtp]_vars

(***************************************************************************)
(* A deposit: one pending deposit of a fresh user, its charge at the       *)
(* gateway, and the two handlers that confirm it, with any deliveries of   *)
(* the webhook (a 'paid' notification only once the charge is paid, a      *)
(* 'pending' one at any time, each any number of times).                   *)
(***************************************************************************)
DepositAmount == BRL(10, 0)

DepositRow ==
  [ type |-> "deposit", user_id |-> "u1", amount |-> DepositAmount, status |-> "pending",
    gateway_id |-> "g1", expires_at |-> "future" ]

\* The headers of a delivery by the gateway.
GatewayHeaders == [ NoHeaders EXCEPT !.x_api_key = ApiKey ]

\* The gateway delivers a notification of the charge with `newStatus`: 'paid'
\* only once the charge is paid, 'pending' at any time.
Notify(p, newStatus) ==
  /\ newStatus = "paid" => gateway.charge = "paid"
  /\ WebhookRequest(p, GatewayHeaders, "g1", newStatus)

InitDeposit ==
  /\ users = [ u \in Users |-> NewUserRow ]
  /\ game_rounds = << >>
  /\ settings = [ k \in { "rtp_percentage" } |-> NumberText(DefaultRtp) ]
  /\ rowLock = [ u \in Users |-> { } ]
  /\ pc = [ p \in Procs |-> "idle" ]
  /\ req = [ p \in Procs |-> NoReq ]
  /\ loc = [ p \in Procs |-> NoLoc ]
  /\ tx = [ p \in Procs |-> NoTx ]
  /\ ret = [ p \in Procs |-> NoRet ]
  /\ resp = [ p \in Procs |-> NoResp ]
  /\ hist = [ p \in Procs |-> NoHist ]
  /\ ops = 0
  /\ lin = NewUserRow
  /\ pool = [ max |-> DefaultPoolMax, clients |-> { } ]
  /\ transactions = << DepositRow >>
  /\ gateway = [ NoGateway EXCEPT !.charge = "pending" ]
  /\ route = [ p \in Procs |-> NoRoute ]

NextDeposit ==
  \/ GatewayPay
  \/ ClockExpire(1)
  \/ \E p \in Procs :
       \/ \E id \in { 1, 2 } : PollRequest(p, "u1", id)
       \/ PollExpire(p)
       \/ PollGateway(p)
       \/ PollMark(p)
       \/ PollCredited(p)
       \/ PollActivated(p)
       \/ \E newStatus \in { "pending", "paid" } : Notify(p, newStatus)
       \/ WebhookMark(p)
       \/ WebhookCredited(p)
       \/ WebhookDone(p)
       \/ UbSelect(p)
       \/ UbCommit(p)
       \/ AfUpdate(p)
       \/ AfCommit(p)

SpecDeposit == InitDeposit /\ [][NextDeposit]_vars

(***************************************************************************)
(* The same, with storage errors in the two core calls.                    *)
(***************************************************************************)
NextDepositErrors ==
  \/ NextDeposit
  \/ \E p \in Procs :
       \/ UbFail(p)
       \/ UbRollback(p)
       \/ AfFail(p)
       \/ AfRollback(p)

SpecDepositErrors == InitDeposit /\ [][NextDepositErrors]_vars

(***************************************************************************)
(* The wallet of a new user: a pending deposit of R$ 10,00, its            *)
(* confirmation by webhook or by poll, rounds of R$ 10,00 and withdrawal   *)
(* requests of R$ 10,00, in any interleaving.                              *)
(***************************************************************************)
\* POST /api/game/scratch on a slot that runs no handler.
Wager(p, betAmount) ==
  /\ RouteIdle(p)
  /\ ScratchRequest(p, "http", "u1", betAmount)

NextWallet ==
  \/ GatewayPay
  \/ \E p \in Procs :
       \/ PollRequest(p, "u1", 1)
       \/ PollGateway(p)
       \/ PollMark(p)
       \/ PollCredited(p)
       \/ PollActivated(p)
       \/ Notify(p, "paid")
       \/ WebhookMark(p)
       \/ WebhookCredited(p)
       \/ WebhookDone(p)
       \/ Wager(p, DepositAmount)
       \/ PlaySelect(p)
       \/ PlayGetSetting(p)
       \/ PlayUpdate(p)
       \/ PlayInsert(p)
       \/ PlayCommit(p)
       \/ PlayRollback(p)
       \/ WithdrawRequest(p, "u1", DepositAmount, TRUE)
       \/ WithdrawDeduct(p)
       \/ WithdrawDeducted(p)
       \/ WithdrawInsert(p)
       \/ UbSelect(p)
       \/ UbCommit(p)
       \/ UbRollback(p)
       \/ AfUpdate(p)
       \/ AfCommit(p)

SpecWallet == InitDeposit /\ [][NextWallet]_vars

(***************************************************************************)
(* Withdrawal requests of a user with a balance, with or without rollover  *)
(* left, with storage errors.                                              *)
(***************************************************************************)
WithdrawBalances == { BRL(10, 0), BRL(20, 0) }
WithdrawRollovers == { 0, BRL(10, 0) }
WithdrawAmounts == { 0, BRL(5, 0), BRL(10, 0), BRL(30, 0) }

InitWithdrawal ==
  /\ \E balance \in WithdrawBalances, rollover_required \in WithdrawRollovers :
       users = [ u \in Users |-> [ balance |-> balance, rollover_required |-> rollover_required,
                                   first_deposit_made |-> TRUE ] ]
  /\ game_rounds = << >>
  /\ settings = [ k \in { "rtp_percentage" } |-> NumberText(DefaultRtp) ]
  /\ rowLock = [ u \in Users |-> { } ]
  /\ pc = [ p \in Procs |-> "idle" ]
  /\ req = [ p \in Procs |-> NoReq ]
  /\ loc = [ p \in Procs |-> NoLoc ]
  /\ tx = [ p \in Procs |-> NoTx ]
  /\ ret = [ p \in Procs |-> NoRet ]
  /\ resp = [ p \in Procs |-> NoResp ]
  /\ hist = [ p \in Procs |-> NoHist ]
  /\ ops = 0
  /\ lin = users["u1"]
  /\ pool = [ max |-> DefaultPoolMax, clients |-> { } ]
  /\ transactions = << >>
  /\ gateway = NoGateway
  /\ route = [ p \in Procs |-> NoRoute ]

NextWithdrawal ==
  \E p \in Procs :
    \/ \E amount \in WithdrawAmounts, pixKey \in BOOLEAN :
         WithdrawRequest(p, "u1", amount, pixKey)
    \/ WithdrawDeduct(p)
    \/ WithdrawDeducted(p)
    \/ WithdrawInsert(p)
    \/ WithdrawInsertFail(p)
    \/ UbSelect(p)
    \/ UbFail(p)
    \/ UbCommit(p)
    \/ UbRollback(p)

SpecWithdrawal == InitWithdrawal /\ [][NextWithdrawal]_vars

(***************************************************************************)
(* Approval of a withdrawal of R$ 10,00 that waits for it, the gateway     *)
(* holding less than, exactly, or more than the amount.                    *)
(***************************************************************************)
GatewayBalances == { 0, 999, 1000, 2500 }     \* centavos

InitApprove ==
  /\ users = [ u \in Users |-> [ balance |-> 0, rollover_required |-> 0,
                                 first_deposit_made |-> TRUE ] ]
  /\ game_rounds = << >>
  /\ settings = [ k \in { "rtp_percentage" } |-> NumberText(DefaultRtp) ]
  /\ rowLock = [ u \in Users |-> { } ]
  /\ pc = [ p \in Procs |-> "idle" ]
  /\ req = [ p \in Procs |-> NoReq ]
  /\ loc = [ p \in Procs |-> NoLoc ]
  /\ tx = [ p \in Procs |-> NoTx ]
  /\ ret = [ p \in Procs |-> NoRet ]
  /\ resp = [ p \in Procs |-> NoResp ]
  /\ hist = [ p \in Procs |-> NoHist ]
  /\ ops = 0
  /\ lin = users["u1"]
  /\ pool = [ max |-> DefaultPoolMax, clients |-> { } ]
  /\ transactions = << WithdrawalRow("u1", DepositAmount) >>
  /\ \E available_balance \in GatewayBalances :
       gateway = [ NoGateway EXCEPT !.available_balance = available_balance ]
  /\ route = [ p \in Procs |-> NoRoute ]

NextApprove ==
  \E p \in Procs :
    \/ \E id \in { 1, 2 } : ApproveRequest(p, id)
    \/ ApproveBalance(p)
    \/ ApproveGatewayFail(p)
    \/ ApprovePayout(p)
    \/ ApproveMark(p)
    \/ ApproveMarkFail(p)
    \/ ApproveReturned(p)
    \/ UbSelect(p)
    \/ UbCommit(p)

SpecApprove == InitApprove /\ [][NextApprove]_vars

(***************************************************************************)
(* The three core functions called concurrently for amounts of R$ 10,00,   *)
(* any statement of theirs failing with a storage error.                   *)
(***************************************************************************)
NextFailures ==
  \E p \in Procs :
    \/ \E userId \in UserIds : ScratchRequest(p, "call", userId, BRL(10, 0))
    \/ PlaySelect(p)
    \/ PlayGetSetting(p)
    \/ PlayUpdate(p)
    \/ PlayInsert(p)
    \/ PlayFail(p)
    \/ PlayCommit(p)
    \/ PlayRollback(p)
    \/ \E operation \in { "add", "subtract" } : BalanceRequest(p, "u1", BRL(10, 0), operation)
    \/ UbSelect(p)
    \/ UbFail(p)
    \/ UbCommit(p)
    \/ UbRollback(p)
    \/ RolloverRequest(p, "u1", BRL(10, 0))
    \/ AfUpdate(p)
    \/ AfFail(p)
    \/ AfCommit(p)
    \/ AfRollback(p)

SpecFailures == Init /\ [][NextFailures]_vars

(***************************************************************************)
(* Rounds of R$ 10,00 of one user over a pool scaled down to PoolMax       *)
(* connections.  A round waits at pool.connect() for a free connection, at *)
(* the locking SELECT for the row lock and at getSetting (a pool.query())  *)
(* for a free connection again; neither wait has a timeout.  Every step of *)
(* a started round is weakly fair: the database and the event loop run     *)
(* whatever is able to run.                                                *)
(***************************************************************************)
PoolMax == 2

InitPool ==
  /\ users = [ u \in Users |-> [ NewUserRow EXCEPT !.balance = BRL(10, 0) ] ]
  /\ game_rounds = << >>
  /\ settings = [ k \in { "rtp_percentage" } |-> NumberText(DefaultRtp) ]
  /\ rowLock = [ u \in Users |-> { } ]
  /\ pc = [ p \in Racers |-> "idle" ]
  /\ req = [ p \in Racers |-> NoReq ]
  /\ loc = [ p \in Racers |-> NoLoc ]
  /\ tx = [ p \in Racers |-> NoTx ]
  /\ ret = [ p \in Racers |-> NoRet ]
  /\ resp = [ p \in Racers |-> NoResp ]
  /\ hist = [ p \in Racers |-> NoHist ]
  /\ ops = 0
  /\ lin = users["u1"]
  /\ pool = [ max |-> PoolMax, clients |-> { } ]
  /\ transactions = << >>
  /\ gateway = NoGateway
  /\ route = [ p \in Racers |-> NoRoute ]

\* The steps of a started round.
PlaySteps(p) ==
  \/ PlaySelect(p)
  \/ PlayGetSetting(p)
  \/ PlayUpdate(p)
  \/ PlayInsert(p)
  \/ PlayCommit(p)
  \/ PlayRollback(p)

NextPool ==
  \E p \in Racers :
    \/ ScratchRequest(p, "call", "u1", BRL(10, 0))
    \/ PlaySteps(p)

SpecPool == InitPool /\ [][NextPool]_vars /\ \A p \in Racers : WF_vars(PlaySteps(p))

(***************************************************************************)
(* POST /webhook/bullspay from any sender: with or without the key in      *)
(* either header, for the pending deposit, for an unknown charge or        *)
(* without data.unic_id, one request after another.                        *)
(***************************************************************************)
WebhookHeaders ==
  { [ x_api_key |-> x, authorization |-> Undefined ] :
      x \in { Undefined, ApiKey, Bearer(ApiKey), << "forged" >>, Bearer(Undefined) } }
  \cup { [ x_api_key |-> Undefined, authorization |-> a ] :
           a \in { ApiKey, Bearer(ApiKey), << "forged" >> } }
  \cup { [ x_api_key |-> << "forged" >>, authorization |-> ApiKey ],
         [ x_api_key |-> ApiKey, authorization |-> << "forged" >> ] }

\* The bodies: data.unic_id and data.status.
WebhookBodies ==
  { [ unic_id |-> "g1", status |-> "pending" ], [ unic_id |-> "g1", status |-> "paid" ],
    [ unic_id |-> "g9", status |-> "paid" ], [ unic_id |-> "none", status |-> "paid" ] }

\* A request to the webhook; one that the gateway sends tells 'paid' only
\* once the charge is paid.
Post(p, headers, unic_id, newStatus) ==
  /\ (isValidWebhookSource(headers) /\ newStatus = "paid") => gateway.charge = "paid"
  /\ WebhookRequest(p, headers, unic_id, newStatus)

NextWebhook ==
  \/ GatewayPay
  \/ \E p \in Player :
       \/ \E headers \in WebhookHeaders, body \in WebhookBodies :
            Post(p, headers, body.unic_id, body.status)
       \/ WebhookMark(p)
       \/ WebhookCredited(p)
       \/ WebhookDone(p)
       \/ UbSelect(p)
       \/ UbCommit(p)
       \/ AfUpdate(p)
       \/ AfCommit(p)

SpecWebhook == InitDeposit /\ [][NextWebhook]_vars

(***************************************************************************)
(* The administrators' decisions on a withdrawal of R$ 10,00 that waits    *)
(* for approval: approvals and rejections of it in any interleaving, a     *)
(* gateway call or a statement of the approval failing.                    *)
(***************************************************************************)
NextAdmin ==
  \E p \in Procs :
    \/ \E id \in { 1, 2 } : ApproveRequest(p, id)
    \/ ApproveBalance(p)
    \/ ApproveGatewayFail(p)
    \/ ApprovePayout(p)
    \/ ApproveMark(p)
    \/ ApproveMarkFail(p)
    \/ ApproveReturned(p)
    \/ \E id \in { 1, 2 } : RejectRequest(p, id)
    \/ RejectBalance(p)
    \/ RejectMark(p)
    \/ RejectMarkFail(p)
    \/ UbSelect(p)
    \/ UbCommit(p)

SpecAdmin == InitApprove /\ [][NextAdmin]_vars

(***************************************************************************)
(* An approved withdrawal of R$ 10,00 whose payout the gateway fails or    *)
(* cancels: notifications of the payout's status and checks of the         *)
(* withdrawal by its user, in any interleaving.                            *)
(***************************************************************************)
\* The gateway ends the payout with `status`.
GatewayEndPayout(status) ==
  /\ gateway.withdrawal = "pending"
  /\ gateway' = [gateway EXCEPT !.withdrawal = status]
  /\ UNCHANGED << users, game_rounds, settings, rowLock, pc, req, loc, tx, ret, resp, hist, ops,
                  lin, pool, transactions, route >>

\* The gateway delivers a notification of the payout's status.
NotifyPayout(p) ==
  /\ gateway.withdrawal # "none"
  /\ WebhookRequest(p, GatewayHeaders, "w1", gateway.withdrawal)

InitPayout ==
  /\ users = [ u \in Users |-> [ balance |-> 0, rollover_required |-> 0,
                                 first_deposit_made |-> TRUE ] ]
  /\ game_rounds = << >>
  /\ settings = [ k \in { "rtp_percentage" } |-> NumberText(DefaultRtp) ]
  /\ rowLock = [ u \in Users |-> { } ]
  /\ pc = [ p \in Procs |-> "idle" ]
  /\ req = [ p \in Procs |-> NoReq ]
  /\ loc = [ p \in Procs |-> NoLoc ]
  /\ tx = [ p \in Procs |-> NoTx ]
  /\ ret = [ p \in Procs |-> NoRet ]
  /\ resp = [ p \in Procs |-> NoResp ]
  /\ hist = [ p \in Procs |-> NoHist ]
  /\ ops = 0
  /\ lin = users["u1"]
  /\ pool = [ max |-> DefaultPoolMax, clients |-> { } ]
  /\ transactions = << [ WithdrawalRow("u1", DepositAmount) EXCEPT !.status = "approved",
                                                                   !.gateway_id = "w1" ] >>
  /\ gateway = [ NoGateway EXCEPT !.withdrawal = "pending",
                                  !.payouts = << [ id |-> 1, amount |-> Centavos(DepositAmount) ] >> ]
  /\ route = [ p \in Procs |-> NoRoute ]

NextPayout ==
  \/ \E status \in { "failed", "canceled" } : GatewayEndPayout(status)
  \/ \E p \in Procs :
       \/ \E id \in { 1, 2 } : WithdrawalCheckRequest(p, "u1", id)
       \/ WithdrawalCheckGateway(p)
       \/ WithdrawalCheckMark(p)
       \/ WithdrawalCheckReturned(p)
       \/ NotifyPayout(p)
       \/ WebhookMark(p)
       \/ WebhookDone(p)
       \/ UbSelect(p)
       \/ UbCommit(p)

SpecPayout == InitPayout /\ [][NextPayout]_vars

(***************************************************************************)
(* Refunds by the administrators: a paid deposit of R$ 10,00 of a user who *)
(* still has R$ 10,00, or has R$ 5,00 left, and a withdrawal of the same   *)
(* user; refund requests for either and for a row that does not exist.     *)
(***************************************************************************)
RefundBalances == { BRL(5, 0), BRL(10, 0) }

InitRefund ==
  /\ \E balance \in RefundBalances :
       users = [ u \in Users |-> [ balance |-> balance, rollover_required |-> 0,
                                   first_deposit_made |-> TRUE ] ]
  /\ game_rounds = << >>
  /\ settings = [ k \in { "rtp_percentage" } |-> NumberText(DefaultRtp) ]
  /\ rowLock = [ u \in Users |-> { } ]
  /\ pc = [ p \in Procs |-> "idle" ]
  /\ req = [ p \in Procs |-> NoReq ]
  /\ loc = [ p \in Procs |-> NoLoc ]
  /\ tx = [ p \in Procs |-> NoTx ]
  /\ ret = [ p \in Procs |-> NoRet ]
  /\ resp = [ p \in Procs |-> NoResp ]
  /\ hist = [ p \in Procs |-> NoHist ]
  /\ ops = 0
  /\ lin = users["u1"]
  /\ pool = [ max |-> DefaultPoolMax, clients |-> { } ]
  /\ transactions = << [ DepositRow EXCEPT !.status = "paid" ],
                       WithdrawalRow("u1", DepositAmount) >>
  /\ gateway = [ NoGateway EXCEPT !.charge = "paid" ]
  /\ route = [ p \in Procs |-> NoRoute ]

NextRefund ==
  \E p \in Procs :
    \/ \E id \in { 1, 2, 3 } : RefundRequest(p, id)
    \/ RefundGateway(p)
    \/ RefundGatewayFail(p)
    \/ RefundMark(p)
    \/ RefundDebited(p)
    \/ UbSelect(p)
    \/ UbCommit(p)
    \/ UbRollback(p)

SpecRefund == InitRefund /\ [][NextRefund]_vars

(***************************************************************************)
(* Rounds whose bet passes the check: a listed value, and amounts of three *)
(* decimals that toFixed(2) writes as a listed value (10.004 is "10.00",   *)
(* 2.995 is "3.00"), for a user with R$ 20,00.                             *)
(***************************************************************************)
AcceptedBets == { BRL(3, 0), BRL(10, 0) + 4, BRL(3, 0) - 5 }

NextAccepted ==
  \E p \in Procs :
    \/ \E betAmount \in AcceptedBets : ScratchRequest(p, "http", "u1", betAmount)
    \/ PlaySelect(p)
    \/ PlayGetSetting(p)
    \/ PlayUpdate(p)
    \/ PlayInsert(p)
    \/ PlayCommit(p)
    \/ PlayRollback(p)

SpecAccepted == InitBets /\ [][NextAccepted]_vars

(***************************************************************************)
(* Properties.                                                             *)
(***************************************************************************)
Done(p) == pc[p] = "idle" /\ req[p].kind # "none"
AllDone == \A p \in DOMAIN pc : Done(p)
Committed(p) == Done(p) /\ ret[p].status = "ok"
Failed(p, message) == Done(p) /\ ret[p].status = "error" /\ ret[p].message = message

\* C1: in every reachable state, under any interleaving of committed rounds
\* and balance additions and subtractions, every user's balance is >= 0.
C1_BalanceNonNegative == \A u \in Users : users[u].balance >= 0

\* C1 witness: a committed round and a committed subtraction have both acted
\* on a balance that is now exactly 0.
C1_Witness ==
  /\ users["u1"].balance = 0
  /\ game_rounds # << >>
  /\ \E p \in DOMAIN pc : Committed(p) /\ req[p].kind = "balance" /\ req[p].operation = "subtract"

C3_ExactlyOneActivation ==
  LET applied == { p \in DOMAIN pc : Committed(p) /\ ret[p].applied }
  IN  /\ Cardinality(applied) <= 1
      /\ \A p \in applied :
           /\ users["u1"].rollover_required = req[p].amount
           /\ users["u1"].first_deposit_made
      /\ AllDone =>
           /\ Cardinality(applied) = 1
           /\ \A p \in DOMAIN pc : Committed(p)

\* C3 witness: all calls have returned, two of them with the amount 500.00
\* and one with another amount, and rollover_required is the amount of the
\* call that returned true.
C3_Witness ==
  /\ AllDone
  /\ \E p, q \in DOMAIN pc :
       /\ p # q
       /\ req[p].amount = BRL(500, 0) /\ req[q].amount = BRL(500, 0)
       /\ ret[p].applied /\ ~ret[q].applied
       /\ users["u1"].rollover_required = BRL(500, 0)
  /\ \E p \in DOMAIN pc : req[p].amount # BRL(500, 0)

\* p takes a step of its request.
Steps(p) == pc'[p] # pc[p] \/ req'[p] # req[p]

\* p's request commits in this step.
Commits(p, kind) == req[p].kind = kind /\ pc[p] # "idle" /\ pc'[p] = "idle" /\ ret'[p].status = "ok"

\* C4: a rollover activation called for a user whose first_deposit_made is
\* already true changes neither balance, rollover_required nor
\* first_deposit_made in any of its steps, and returns false, not an error.
C4_AlreadyActivatedNoOp ==
  [][ \A p \in DOMAIN pc :
        (req[p].kind = "rollover" /\ hist[p].firstDepositMadeAtCall /\ Steps(p) /\ req'[p] = req[p])
          => /\ users' = users
             /\ game_rounds' = game_rounds
             /\ pc'[p] = "idle" => (ret'[p].status = "ok" /\ ~ret'[p].applied) ]_vars

\* C4 witness: a rollover activation called with first_deposit_made already
\* true has returned false.
C4_Witness ==
  \E p \in DOMAIN pc :
    /\ req[p].kind = "rollover" /\ hist[p].firstDepositMadeAtCall
    /\ Committed(p) /\ ~ret[p].applied
    /\ users["u1"].rollover_required > 0

\* C5: rollover_required is >= 0 in every reachable state, no step of a round
\* increases it, and the only step that increases it is the commit of a
\* rollover activation.
C5_RolloverNonNegativeMonotone ==
  /\ [](\A u \in Users : users[u].rollover_required >= 0)
  /\ [][ \A u \in Users :
           /\ users'[u].rollover_required > users[u].rollover_required
                => \E p \in DOMAIN pc : Commits(p, "rollover")
           /\ (\E p \in DOMAIN pc : req[p].kind = "scratch" /\ Steps(p))
                => users'[u].rollover_required <= users[u].rollover_required ]_vars

\* C5 witness: a committed round has brought an activated rollover down to 0.
C5_Witness ==
  /\ users["u1"].first_deposit_made
  /\ users["u1"].rollover_required = 0
  /\ game_rounds # << >>

\* C6: the commit of a round writes balance - betAmount + prizeAmount and
\* max(0, rollover_required - betAmount), where balance and rollover_required
\* are the values read under the row lock, which are still the committed ones;
\* balance 500.00, rollover 500.00, bet 10.00, RTP 95.0 and multiplier 1 give
\* balance 500.00 and rollover 490.00.
C6_RoundArithmetic ==
  [][ \A p \in DOMAIN pc :
        Commits(p, "scratch") =>
          LET u == req[p].userId
          IN  /\ loc[p].currentBalance = users[u].balance
              /\ loc[p].currentRollover = users[u].rollover_required
              /\ loc[p].prizeAmount =
                   RoundCentavos(req[p].amount * loc[p].base * loc[p].rtpPercentage, 100 * BaseRtp)
              /\ users'[u].balance = loc[p].currentBalance - req[p].amount + loc[p].prizeAmount
              /\ users'[u].rollover_required =
                   (IF loc[p].currentRollover >= req[p].amount
                    THEN loc[p].currentRollover - req[p].amount ELSE 0)
              /\ ( /\ users[u].balance = BRL(500, 0)
                   /\ users[u].rollover_required = BRL(500, 0)
                   /\ req[p].amount = BRL(10, 0)
                   /\ loc[p].rtpPercentage = 9500
                   /\ loc[p].base = 1 )
                 => ( /\ users'[u].balance = BRL(500, 0)
                      /\ users'[u].rollover_required = BRL(490, 0) ) ]_vars

\* C6 witness: the round of the example has committed: bet 10.00 at RTP 95.0
\* with multiplier 1 on balance 500.00 and rollover 500.00.
C6_Witness ==
  /\ users["u1"].balance = BRL(500, 0)
  /\ users["u1"].rollover_required = BRL(490, 0)
  /\ Len(game_rounds) = 1
  /\ game_rounds[1].bet_amount = BRL(10, 0)
  /\ game_rounds[1].prize_amount = BRL(10, 0)
  /\ game_rounds[1].base = 1
  /\ game_rounds[1].rtp = 9500

\* C7: a round is all-or-nothing.  The step in which a round returns
\* successfully is the only step of it that changes committed state: it writes
\* the user's row once and appends exactly one game_rounds record, that of
\* this round.  Every other step of a round, the rollback of a failed round
\* included (also one whose INSERT failed after the UPDATE), leaves users and
\* game_rounds as they were.
C7_RoundAllOrNothing ==
  [][ \A p \in DOMAIN pc :
        (req[p].kind = "scratch" /\ Steps(p) /\ req'[p] = req[p]) =>
          IF Commits(p, "scratch")
          THEN /\ Len(game_rounds') = Len(game_rounds) + 1
               /\ SubSeq(game_rounds', 1, Len(game_rounds)) = game_rounds
               /\ game_rounds'[Len(game_rounds')] = RoundRecord(p)
               /\ users' = [users EXCEPT ![req[p].userId] = tx[p].row[1]]
          ELSE /\ users' = users
               /\ game_rounds' = game_rounds ]_vars

\* C7 witness: a round whose INSERT failed after its UPDATE has been rolled
\* back, with the balance and the round history as before it.
C7_Witness ==
  \E p \in DOMAIN pc :
    /\ Failed(p, MsgStorage)
    /\ users["u1"].balance = BRL(10, 0)
    /\ game_rounds = << >>

\* The three validation failures of a round.
ValidationFailed(p) ==
  /\ req[p].kind = "scratch"
  /\ \/ Failed(p, MsgInvalidBet)
     \/ Failed(p, MsgNotFound)
     \/ Failed(p, MsgInsufficient)

\* C8 as claimed: a round that ended in one of the three validation failures
\* (invalid bet, user not found, insufficient balance) has not begun a
\* transaction and has not acquired the user's row lock.
C8_Original ==
  \A p \in DOMAIN pc : ValidationFailed(p) => (~hist[p].began /\ ~hist[p].locked)

\* C8 amended: only the invalid bet is detected before the transaction begins
\* (no connection, no BEGIN, no lock).  A missing user and an insufficient
\* balance are detected inside the transaction, after the locking SELECT: the
\* transaction has begun, and for an insufficient balance the row lock was
\* acquired; the transaction is then rolled back, so a failed round holds no
\* lock and has no pending write once it has ended.
C8_ValidationPlaces ==
  \A p \in DOMAIN pc :
    /\ (req[p].kind = "scratch" /\ Failed(p, MsgInvalidBet)) => (~hist[p].began /\ ~hist[p].locked)
    /\ (req[p].kind = "scratch" /\ Failed(p, MsgNotFound)) => (hist[p].began /\ ~hist[p].locked)
    /\ (req[p].kind = "scratch" /\ Failed(p, MsgInsufficient)) => (hist[p].began /\ hist[p].locked)
    /\ ValidationFailed(p) => (tx[p] = NoTx /\ \A u \in Users : p \notin rowLock[u])

\* C8 witness: rounds have ended in two different validation failures, one of
\* them an insufficient balance found under the row lock.
C8_Witness ==
  \E p, q \in DOMAIN pc :
    /\ req[p].kind = "scratch" /\ Failed(p, MsgInsufficient) /\ hist[p].locked
    /\ req[q].kind = "scratch" /\ (Failed(q, MsgInvalidBet) \/ Failed(q, MsgNotFound))

\* The positions of an operation between its locking read (or its UPDATE) and
\* the end of its transaction.
InSpan(p) ==
  \/ pc[p] \in { "play_setting", "play_update", "play_insert", "play_commit", "ub_commit" }
  \/ pc[p] \in { "play_rollback", "ub_rollback" } /\ hist[p].locked
  \/ pc[p] = "af_commit" /\ loc[p].rows > 0

\* C9: for a single user the operations are linearizable.  An operation holds
\* the row lock from its read to the end of its transaction, no two
\* operations are inside that span together, and the committed row always
\* equals the row obtained by applying the committed operations one at a time
\* in commit order (which, the lock being held until the commit, is the order
\* of lock acquisition): no committed delta is lost.
C9_Linearizable ==
  /\ \A p \in DOMAIN pc : InSpan(p) => Holds(rowLock, p, req[p].userId)
  /\ \A p, q \in DOMAIN pc : (InSpan(p) /\ InSpan(q) /\ req[p].userId = req[q].userId) => p = q
  /\ \A p \in DOMAIN pc : tx[p].row # << >> => InSpan(p)
  /\ users["u1"] = lin
  /\ lin.balance >= 0

\* C9 witness: after a committed addition, a round holds the row lock with its
\* write pending while an operation of another kind waits for that lock.
C9_Witness ==
  /\ users["u1"].balance > 0
  /\ \E p, q \in DOMAIN pc :
       /\ p # q
       /\ req[p].kind = "scratch" /\ InSpan(p) /\ tx[p].row # << >>
       /\ pc[q] \in { "ub_select", "af_update" }
       /\ req[q].userId = req[p].userId

\* C10 as claimed: a round requested over HTTP with a balance below the bet
\* fails with 'Saldo insuficiente' and is answered with a client error (4xx).
C10_InsufficientFundsIs4xx ==
  \A p \in DOMAIN pc :
    (req[p].kind = "scratch" /\ req[p].via = "http" /\ Failed(p, MsgInsufficient))
      => resp[p].status \in 400..499

\* C11 as claimed: a round whose bet is not one of the ALLOWED_BETS values is
\* rejected before anything happens: it never begins a transaction and never
\* returns successfully.
C11_Original ==
  \A p \in DOMAIN pc :
    (req[p].kind = "scratch" /\ req[p].amount \notin ALLOWED_BETS)
      => (pc[p] = "idle" /\ ~hist[p].began /\ ret[p].status # "ok")

\* C11 amended: a bet whose value rounded to two decimals is not one of
\* ALLOWED_BETS is rejected at once: by the route with 400 and the allowed
\* list, by playScratchCard with the invalid-bet error; the request never
\* begins a transaction, and the step that rejects it changes neither the
\* users rows, the round history, the settings nor any lock.  (An amount that
\* is not in the list but rounds to a listed value is not rejected.)
C11_InvalidBetRejected ==
  /\ [](\A p \in DOMAIN pc :
          (req[p].kind = "scratch" /\ ToFixed2(req[p].amount) \notin ALLOWED_BETS) =>
            /\ pc[p] = "idle" /\ ~hist[p].began /\ tx[p] = NoTx
            /\ req[p].via = "http" =>
                 (resp[p] = [ status |-> 400, allowed_bets |-> TRUE ] /\ ret[p] = NoRet)
            /\ req[p].via = "call" => Failed(p, MsgInvalidBet))
  /\ [][ (ops' # ops /\ pc' = pc) =>
           UNCHANGED << users, game_rounds, settings, rowLock, tx, lin >> ]_vars

\* C11 witness: a bet of 7.00 was rejected by the route with 400 and the
\* allowed list and another by playScratchCard with the invalid-bet error,
\* and the balance and the round history are as they were.
C11_Witness ==
  /\ users["u1"].balance = BRL(20, 0)
  /\ game_rounds = << >>
  /\ \E p, q \in DOMAIN pc :
       /\ req[p].kind = "scratch" /\ req[p].via = "http" /\ req[p].amount = BRL(7, 0)
       /\ resp[p] = [ status |-> 400, allowed_bets |-> TRUE ]
       /\ req[q].kind = "scratch" /\ req[q].via = "call" /\ req[q].amount = BRL(7, 0) + 4
       /\ Failed(q, MsgInvalidBet)

\* C12: a round with a valid bet for a user id that has no users row fails
\* with 'Usuario nao encontrado', which the route answers with 404; no step of
\* the request changes the users rows or the round history, and nothing of
\* its transaction remains.
C12_NotFound404 ==
  /\ [](\A p \in DOMAIN pc :
          ( /\ req[p].kind = "scratch" /\ req[p].userId \notin Users
            /\ ToFixed2(req[p].amount) \in ALLOWED_BETS /\ Done(p) ) =>
            /\ Failed(p, MsgNotFound)
            /\ req[p].via = "http" => resp[p].status = 404
            /\ tx[p] = NoTx /\ \A u \in Users : p \notin rowLock[u])
  /\ [][ \A p \in DOMAIN pc :
           (req'[p].kind = "scratch" /\ req'[p].userId \notin Users /\ (Steps(p) \/ ops' # ops))
             => (users' = users /\ game_rounds' = game_rounds) ]_vars

\* C12 witness: after a deposit was credited, a round requested over HTTP for
\* a user id without a row was answered 404.
C12_Witness ==
  /\ users["u1"].balance > 0
  /\ \E p \in DOMAIN pc :
       /\ req[p].kind = "scratch" /\ req[p].via = "http" /\ req[p].userId \notin Users
       /\ Failed(p, MsgNotFound) /\ resp[p].status = 404

\* A round that has drawn and computed its prize and has not yet returned.
Drawn(p) == req[p].kind = "scratch" /\ pc[p] \in { "play_insert", "play_commit" }

\* C13: for every allowed bet and every draw, the multiplier returned by
\* calculateScratchPrize at RTP 95.0 is one of 0, 1, 2, 5, 10, and the
\* multiplier returned at any RTP is the multiplier of RTP 95.0 for the same
\* bet and draw, multiplied by rtp / 95.0.
C13_MultiplierScaling ==
  \A p \in DOMAIN pc :
    Drawn(p) =>
      LET at95 == calculateScratchPrize(req[p].amount, 9500, loc[p].random).multiplier
      IN  /\ at95 \in { DoubleOf(k, 1) : k \in { 0, 1, 2, 5, 10 } }
          /\ loc[p].rtpPercentage = 9500 => loc[p].multiplier = at95
          /\ loc[p].multiplier = FMul(at95, FDiv(DoubleOf(loc[p].rtpPercentage, 100), 95))

\* C13 witness: a bet of 50.00 at RTP 75.0 drew the 10x band, and the
\* multiplier returned is not 10.
C13_Witness ==
  \E p \in DOMAIN pc :
    /\ Drawn(p) /\ req[p].amount = BRL(50, 0) /\ loc[p].rtpPercentage = 7500
    /\ loc[p].base = 10 /\ loc[p].multiplier # DoubleOf(10, 1)

\* C14: for every allowed bet and every draw the base multiplier is that of
\* the reference table: bonusChance 0 / 0.03 / 0.06 / 0.09 / 0.12 / 0.15 for
\* bets in [0,5) / [5,10) / [10,20) / [20,30) / [30,50) / >= 50; t1..t4 =
\* 0.02+0.15b, 0.07+0.30b, 0.22+0.40b, 0.50+0.15b; 10 below t1, 5 in [t1,t2),
\* 2 in [t2,t3), 1 in [t3,t4), 0 from t4 on.  At bet 0.50 a draw just below
\* 0.02 gives 10 and a draw of exactly 0.50 gives 0.
C14_ReferenceTable ==
  \A p \in DOMAIN pc :
    Drawn(p) =>
      LET bet == req[p].amount
          r == loc[p].random
          b == CASE bet < 5000 -> 0
                 [] bet >= 5000 /\ bet < 10000 -> 3
                 [] bet >= 10000 /\ bet < 20000 -> 6
                 [] bet >= 20000 /\ bet < 30000 -> 9
                 [] bet >= 30000 /\ bet < 50000 -> 12
                 [] bet >= 50000 -> 15
          t1 == 200 + 15 * b
          t2 == 700 + 30 * b
          t3 == 2200 + 40 * b
          t4 == 5000 + 15 * b
          expected == CASE r < t1 -> 10
                        [] t1 <= r /\ r < t2 -> 5
                        [] t2 <= r /\ r < t3 -> 2
                        [] t3 <= r /\ r < t4 -> 1
                        [] OTHER -> 0
      IN  /\ loc[p].base = expected
          /\ (bet = 500 /\ r = 199) => loc[p].base = 10
          /\ (bet = 500 /\ r = 5000) => loc[p].base = 0

\* C14 witness: a bet of 0.50 with a draw of exactly 0.50 got multiplier 0.
C14_Witness ==
  \E p \in DOMAIN pc :
    Drawn(p) /\ req[p].amount = BRL(0, 50) /\ loc[p].random = 5000 /\ loc[p].base = 0

\* C15 as claimed: for every allowed bet, base multiplier and RTP in 50..99
\* the prize is betAmount x multiplier x rtp / 95 rounded half-up to two
\* decimals, computed in exact centavos, and is not negative.
C15_PrizeHalfUp ==
  \A p \in DOMAIN pc :
    Drawn(p) =>
      LET centavos == req[p].amount \div 10
          exact == (2 * centavos * loc[p].base * loc[p].rtpPercentage + 9500) \div (2 * 9500)
      IN  /\ loc[p].prizeAmount = exact * 10
          /\ loc[p].prizeAmount >= 0

\* C16: for any two allowed bets b1 <= b2 and the same draw, the base
\* multiplier selected for b2 is at least the one selected for b1.
C16_HigherStakesNoWorse ==
  \A p \in DOMAIN pc :
    Drawn(p) =>
      \A b \in ALLOWED_BETS :
        /\ b <= req[p].amount => BaseMultiplier(b, loc[p].random) <= loc[p].base
        /\ b >= req[p].amount => BaseMultiplier(b, loc[p].random) >= loc[p].base

\* C16 witness: with the same draw a bet of 50.00 got multiplier 10 where a
\* bet of 0.50 gets 5.
C16_Witness ==
  \E p \in DOMAIN pc :
    /\ Drawn(p) /\ req[p].amount = BRL(50, 0) /\ loc[p].base = 10
    /\ BaseMultiplier(BRL(0, 50), loc[p].random) = 5

\* C17 as claimed: after any sequence of POST /api/admin/rtp requests, with
\* numeric or non-numeric values, the stored rtp_percentage is a number
\* within [50, 99].
C17_StoredRtpInRange ==
  /\ "rtp_percentage" \in DOMAIN settings
  /\ settings["rtp_percentage"].numeral
  /\ settings["rtp_percentage"].value \in 5000..9900

\* C18: the RTP is read once per round.  The rtp of the record a round
\* commits is the value the round read, and the record's prize is the prize
\* calculateScratchPrize gives for that value, the round's bet and its draw,
\* whatever the setting has become in the meantime.
C18_RecordedRtpIsUsedRtp ==
  [][ \A p \in DOMAIN pc :
        Commits(p, "scratch") =>
          LET round == game_rounds'[Len(game_rounds')]
              prize == calculateScratchPrize(req[p].amount, round.rtp, loc[p].random)
          IN  /\ Len(game_rounds') = Len(game_rounds) + 1
              /\ round.rtp = loc[p].rtpPercentage
              /\ round.base = prize.base
              /\ round.prize_amount = Decimal2(prize.prizeAmount)
              /\ ret'[p].prize = prize.prizeAmount ]_vars

\* C18 witness: a round that read RTP 95.0 is about to commit its record
\* with rtp 95.0 and a 10x prize while the setting has become 50.
C18_Witness ==
  \E p \in DOMAIN pc :
    /\ pc[p] = "play_commit"
    /\ loc[p].rtpPercentage = 9500 /\ loc[p].base = 10
    /\ tx[p].rounds[1].rtp = 9500
    /\ settings["rtp_percentage"] = NumberText(5000)

\* C19: a round for which getSetting('rtp_percentage') yielded null computes
\* its prize with RTP 95.0 and records rtp 95.0.
C19_NullSettingIsDefault ==
  /\ [](\A p \in DOMAIN pc :
          (req[p].kind = "scratch" /\ hist[p].settingNull) =>
            /\ pc[p] = "play_update" => loc[p].rtpPercentage = 9500
            /\ Drawn(p) =>
                 /\ loc[p].rtpPercentage = 9500
                 /\ loc[p].prizeAmount = req[p].amount * loc[p].base
            /\ pc[p] = "play_commit" => tx[p].rounds[1].rtp = 9500)
  /\ [][ \A p \in DOMAIN pc :
           (Commits(p, "scratch") /\ hist[p].settingNull) =>
             game_rounds'[Len(game_rounds')].rtp = 9500 ]_vars

\* C19 witness: with no rtp_percentage row stored, a round has committed a
\* 10x prize of 100.00 on a bet of 10.00 and a record with rtp 95.0.
C19_Witness ==
  /\ "rtp_percentage" \notin DOMAIN settings
  /\ \E p \in DOMAIN pc :
       /\ Committed(p) /\ req[p].kind = "scratch" /\ hist[p].settingNull
       /\ ret[p].prize = BRL(100, 0)
  /\ Len(game_rounds) = 1 /\ game_rounds[1].rtp = 9500

\* C20: first_deposit_made is monotone.  No step sets it back from true to
\* false, and the only step that sets it is the commit of a rollover
\* activation that returns true, so it changes at most once.
C20_FirstDepositMadeMonotone ==
  [][ \A u \in Users :
        /\ users[u].first_deposit_made => users'[u].first_deposit_made
        /\ (~users[u].first_deposit_made /\ users'[u].first_deposit_made) =>
             \E p \in DOMAIN pc : Commits(p, "rollover") /\ ret'[p].applied ]_vars

\* C20 witness: after the rollover activation a round has committed, and the
\* flag is still true.
C20_Witness ==
  /\ users["u1"].first_deposit_made
  /\ users["u1"].rollover_required > 0
  /\ game_rounds # << >>

\* No handler and no call is in flight.
Quiet == \A p \in DOMAIN pc : RouteIdle(p)

\* C24: the deposit is credited exactly once after it is paid: the balance of
\* the fresh user never exceeds the deposit amount, and when the deposit is
\* marked paid and no handler is in flight the balance is the deposit amount.
C24_CreditedExactlyOnce ==
  /\ users["u1"].balance <= DepositAmount
  /\ (Quiet /\ transactions[1].status = "paid") => users["u1"].balance = DepositAmount

\* C30: no execution comes to rest with the first deposit credited and
\* marked paid but the rollover not activated.
C30_ActivationNotSkipped ==
  ~ /\ Quiet
    /\ transactions[1].status = "paid"
    /\ users["u1"].balance >= DepositAmount
    /\ ~users["u1"].first_deposit_made

\* C21: game_rounds is append-only: every step of the wallet (rounds, deposit
\* confirmations, withdrawal requests and the core calls they make) leaves
\* every row already in game_rounds in place and unchanged, and only adds
\* rows at the end.
C21_RoundsAppendOnly ==
  [][ /\ Len(game_rounds') >= Len(game_rounds)
      /\ \A i \in DOMAIN game_rounds : game_rounds'[i] = game_rounds[i] ]_vars

\* Two rounds are recorded after the deposit was confirmed.
C21_Witness ==
  /\ Len(game_rounds) = 2
  /\ users["u1"].first_deposit_made
  /\ Quiet

\* C22: a withdrawal request is accepted (its row is inserted) only while the
\* user's rollover_required is zero, in every interleaving of the deposit
\* confirmations and POST /api/withdrawal/create.
C22_AcceptedOnlyWithoutRollover ==
  [][ Len(transactions') > Len(transactions) => users["u1"].rollover_required = 0 ]_vars

\* C23: a POST /api/withdrawal/create that fails, being the only request made,
\* leaves the balance at the value it had before the request.
C23_FailedCreateReturnsBalance ==
  \A p \in Procs :
    ( /\ ops = 1
      /\ route[p].kind = "withdraw"
      /\ route[p].step = "done"
      /\ route[p].error # << >> )
    => users[route[p].user_id].balance = route[p].user.balance

\* C25: when the gateway's available balance (centavos) is below the amount
\* of the withdrawal, the approval that reads it answers 400 and ends: no
\* payout is requested, no row of transactions or users changes and no core
\* call is made.
C25_ApprovalRejectedBelowBalance ==
  [][ \A p \in Procs :
        ( /\ route[p].step = "ap_balance"
          /\ route'[p].step \notin { "ap_balance", "ap_return" }
          /\ gateway.available_balance * 10 < route[p].transaction.amount )
        => /\ route'[p].step = "done"
           /\ resp'[p].status = 400
           /\ gateway' = gateway
           /\ transactions' = transactions
           /\ users' = users
           /\ pc' = pc ]_vars

\* An approval was rejected for a gateway balance one centavo short: the
\* withdrawal still waits, nothing was paid out or returned.
C25_Witness ==
  \E p \in Procs :
    /\ route[p].kind = "approve"
    /\ route[p].step = "done"
    /\ route[p].transaction.status = "pending_approval"
    /\ route[p].available_balance = 999
    /\ resp[p].status = 400
    /\ transactions[1].status = "pending_approval"
    /\ gateway.payouts = << >>
    /\ users["u1"].balance = 0

\* C28: playScratchCard validates in the order invalid bet, user not found,
\* insufficient balance: a call whose bet is not allowed fails with the
\* invalid-bet error even if the user has no row or the balance is below the
\* bet; a call with an allowed bet for a user without a row fails with
\* 'Usuario nao encontrado'; only a call with an allowed bet for an existing
\* user fails with 'Saldo insuficiente'.
C28_ValidationOrder ==
  \A p \in DOMAIN pc :
    (req[p].kind = "scratch" /\ req[p].via = "call" /\ Done(p)) =>
      LET invalid == ToFixed2(req[p].amount) \notin ALLOWED_BETS
          missing == req[p].userId \notin Users
      IN  /\ invalid => Failed(p, MsgInvalidBet)
          /\ (~invalid /\ missing) => Failed(p, MsgNotFound)
          /\ Failed(p, MsgInsufficient) => (~invalid /\ ~missing)

\* C28 witness: a bet of 7.00 for a user id without a row and a bet of 7.00
\* for a user whose balance is 0.00 have both failed with the invalid-bet
\* error.
C28_Witness ==
  /\ users["u1"].balance = 0
  /\ \E p, q \in DOMAIN pc :
       /\ req[p].kind = "scratch" /\ req[p].via = "call" /\ req[p].amount = BRL(7, 0)
       /\ req[p].userId = "u0" /\ Failed(p, MsgInvalidBet)
       /\ req[q].kind = "scratch" /\ req[q].via = "call" /\ req[q].amount = BRL(7, 0)
       /\ req[q].userId = "u1" /\ Failed(q, MsgInvalidBet)

\* C29: for the bet of every round, 0 < threshold1 < threshold2 < threshold3
\* < threshold4 < 1 (in ten-thousandths: < 10000), so the five bands
\* [0, t1), [t1, t2), [t2, t3), [t3, t4), [t4, 1) are non-empty, disjoint and
\* cover [0, 1): the draw of a round lies in exactly one of them, and the
\* round's multiplier is that band's.
C29_BandsPartition ==
  \A p \in DOMAIN pc :
    req[p].kind = "scratch" =>
      LET b == req[p].amount
          cut == << 0, Threshold1(b), Threshold2(b), Threshold3(b), Threshold4(b), 10000 >>
          mult == << 10, 5, 2, 1, 0 >>
          bands == { i \in 1..5 : cut[i] <= loc[p].random /\ loc[p].random < cut[i + 1] }
      IN  /\ \A i \in 1..5 : cut[i] < cut[i + 1]
          /\ Drawn(p) => /\ Cardinality(bands) = 1
                         /\ \A i \in bands : loc[p].base = mult[i]

\* C29 witness: with the largest bonus (bet 50.00) a round drew the last
\* value below threshold4 and got the multiplier of the fourth band.
C29_Witness ==
  \E p \in DOMAIN pc :
    /\ Drawn(p)
    /\ req[p].amount = BRL(50, 0)
    /\ loc[p].random = 5224
    /\ loc[p].base = 1

\* C26: every exit path of playScratchCard, updateUserBalance and
\* applyFirstDepositRollover ends the transaction and releases the
\* connection: a call that began a transaction returns by the step of its
\* COMMIT or of its ROLLBACK, and a call that has returned, with a result or
\* with an error, holds no pool connection, no row lock and no pending write.
C26_TransactionEndedAndReleased ==
  /\ [](\A p \in DOMAIN pc :
          pc[p] = "idle" =>
            /\ p \notin pool.clients
            /\ \A u \in Users : p \notin rowLock[u]
            /\ tx[p] = NoTx)
  /\ [][ \A p \in DOMAIN pc :
           (pc[p] # "idle" /\ pc'[p] = "idle") =>
             pc[p] \in { "play_commit", "play_rollback", "ub_commit", "ub_rollback",
                         "af_commit", "af_rollback" } ]_vars

\* C26 witness: a round that failed with a storage error under the row lock
\* and a balance update that committed have both returned.
C26_Witness ==
  \E p, q \in DOMAIN pc :
    /\ req[p].kind = "scratch" /\ Failed(p, MsgStorage) /\ hist[p].locked
    /\ req[q].kind = "balance" /\ Committed(q) /\ hist[q].locked
    /\ users["u1"].balance = BRL(10, 0)
    /\ pool.clients = { }

\* C27: under fairness every started round eventually commits or rolls back,
\* whatever the number of rounds in flight is relative to the pool size.
C27_EveryRoundEnds ==
  \A p \in Racers : (pc[p] # "idle") ~> (pc[p] = "idle")

\* C36: a webhook request that carries the expected API key in neither the
\* X-API-Key nor the Authorization header (bare or as Bearer) is answered 401
\* at once: the step that receives it changes no user, transaction, round,
\* setting or gateway state, and the request takes no further step.
C36_NoKeyRejected ==
  /\ [](\A p \in Procs :
          ( /\ route[p].kind = "webhook"
            /\ route[p].headers.x_api_key \notin { ApiKey, << "Bearer" >> \o ApiKey }
            /\ route[p].headers.authorization \notin { ApiKey, << "Bearer" >> \o ApiKey } )
          => /\ route[p].step = "done"
             /\ resp[p].status = 401
             /\ pc[p] = "idle")
  /\ [][ \A p \in Procs :
           ( /\ ops' # ops
             /\ route'[p] # route[p]
             /\ route'[p].kind = "webhook"
             /\ route'[p].headers.x_api_key \notin { ApiKey, << "Bearer" >> \o ApiKey }
             /\ route'[p].headers.authorization \notin { ApiKey, << "Bearer" >> \o ApiKey } )
           => UNCHANGED << users, game_rounds, settings, rowLock, tx, lin, pool,
                           transactions, gateway >> ]_vars

\* C36 witness: after the charge was paid, a request with a forged key was
\* answered 401; the deposit is still pending and nothing was credited.
C36_Witness ==
  \E p \in Procs :
    /\ route[p].kind = "webhook"
    /\ route[p].headers = [ x_api_key |-> << "forged" >>, authorization |-> Undefined ]
    /\ resp[p].status = 401
    /\ gateway.charge = "paid"
    /\ transactions[1].status = "pending"
    /\ users["u1"] = NewUserRow

\* C37: a GET /api/deposit/check that finds the deposit stored as paid or
\* expired answers at once and changes nothing; a check marks a deposit
\* expired only when, at the UPDATE, the deposit is still pending and past
\* its expires_at.
C37_CheckFrame ==
  [][ \A p \in Procs :
        /\ ( /\ ops' # ops
             /\ route'[p] # route[p]
             /\ route'[p].kind = "poll"
             /\ route'[p].id \in DOMAIN transactions
             /\ transactions[route'[p].id].status \in { "paid", "expired" } )
           => /\ route'[p].step = "done"
              /\ UNCHANGED << users, game_rounds, settings, rowLock, tx, lin, pc,
                              transactions, gateway >>
        /\ ( /\ route[p].kind = "poll"
             /\ route'[p].kind = "poll"
             /\ route[p].id \in DOMAIN transactions
             /\ transactions'[route[p].id].status = "expired"
             /\ transactions[route[p].id].status # "expired"
             /\ route[p].step # route'[p].step )
           => /\ transactions[route[p].id].status = "pending"
              /\ transactions[route[p].id].expires_at = "past" ]_vars

\* C32: the amount a committed round takes from the stored balance (the prize
\* apart) and from the stored rollover_required (down to zero) is one of the
\* ALLOWED_BETS values.
C32_DebitIsListed ==
  [][\A p \in Procs :
       (pc[p] = "play_commit" /\ pc'[p] # "play_commit") =>
         \E b \in ALLOWED_BETS :
           /\ users'[req[p].userId].balance =
                users[req[p].userId].balance - b + Decimal2(loc[p].prizeAmount)
           /\ users'[req[p].userId].rollover_required =
                Max(0, users[req[p].userId].rollover_required - b)]_vars

\* What the recorded rounds of a user add up to: the sum of prize_amount less
\* the sum of bet_amount.
RECURSIVE RoundsNet(_, _)
RoundsNet(rounds, userId) ==
  IF rounds = << >> THEN 0
  ELSE (IF Head(rounds).user_id = userId
        THEN Head(rounds).prize_amount - Head(rounds).bet_amount ELSE 0)
       + RoundsNet(Tail(rounds), userId)

\* C31: after committed rounds alone (no deposit, withdrawal or refund), a
\* user's stored balance is the initial balance of R$ 20,00 less the sum of
\* bet_amount plus the sum of prize_amount of that user's recorded rounds.
C31_BalanceIsLedger ==
  \A u \in Users : users[u].balance = BRL(20, 0) + RoundsNet(game_rounds, u)

\* The number of payouts the gateway was asked to make for withdrawal `id`.
PayoutsOf(id) == Cardinality({ i \in DOMAIN gateway.payouts : gateway.payouts[i].id = id })

\* C33: for the withdrawal of R$ 10,00 (the user's balance is 0 and nothing
\* else credits it), the gateway is asked for a payout at most once, the
\* amount is returned to the balance at most once, and never both.
C33_PayoutOrReturnOnce ==
  /\ PayoutsOf(1) <= 1
  /\ users["u1"].balance <= DepositAmount
  /\ ~(PayoutsOf(1) >= 1 /\ users["u1"].balance > 0)

\* C34: the amount of the failed or canceled withdrawal of R$ 10,00 (the
\* user's balance is 0 and nothing else credits it) is returned to the balance
\* at most once, whatever the notifications and checks that observe the status.
C34_ReturnedOnce == users["u1"].balance <= DepositAmount

\* C35: once no refund request is running, the deposit of R$ 10,00 is marked
\* refunded exactly if its amount was taken from the balance, and it was taken
\* at most once.  (The balance was R$ 10,00 or R$ 5,00: it is 0 exactly if the
\* amount was taken once, and would be NaN or negative if taken again.)
C35_RefundAtomic ==
  /\ users["u1"].balance \in { 0, BRL(5, 0), BRL(10, 0) }
  /\ (\A p \in Procs : RouteIdle(p)) =>
       (transactions[1].status = "refunded") = (users["u1"].balance = 0)

====
